---- MODULE Spec2Model ----
(***************************************************************************)
(* buddy8800: an Intel 8080 interpreter on an S-100 style bus of cards.    *)
(*                                                                         *)
(* The module models                                                       *)
(*   - the card classes (data_card, serial_card) of core/bus/card.hpp,     *)
(*   - the slot registry and routing of core/bus/bus.hpp,                  *)
(*   - the register file of cpu_state.hpp,                                 *)
(*   - the interpreter front (step / execute / interrupt / clear) of       *)
(*     core/cpu/cpu.hpp.                                                   *)
(* The specifications share the variables: SpecBus plugs cards in and out  *)
(* of the bus, SpecBusIO reads and writes through it, SpecCards adds      *)
(* bus.clear(), SpecSerial drives one serial card through its two ports,   *)
(* SpecIrq raises card interrupts and polls the bus for them,              *)
(* SpecRegs drives the register file API, SpecPairs its setters on every   *)
(* pair, SpecCpu drives the CPU API over a fixed backplane, SpecBoot loads *)
(* images with a reset vector and runs them, SpecInst steps single         *)
(* instructions from enumerated register and memory contents.              *)
(***************************************************************************)
EXTENDS Integers, Sequences, FiniteSets, TLC

(***************************************************************************)
(* Program constants                                                       *)
(***************************************************************************)
\* typedef.hpp: static constexpr u8 BAD_U8 = 0xFF
BAD_U8 == 255
\* bus.hpp: static constexpr usize MAX_BUS_CARDS = 18
MAX_BUS_CARDS == 18
\* card.hpp: constexpr static u16 SERIAL_IO_ADDRESSES = 2
SERIAL_IO_ADDRESSES == 2
\* card.hpp: constexpr static usize SERIAL_BASE_CLOCK = 19200
SERIAL_BASE_CLOCK == 19200
\* bus.hpp: static constexpr card* NO_CARD = nullptr
NO_CARD == "nullptr"

(***************************************************************************)
(* Small arithmetic helpers (u8 / u16 wrap-around, bit tests)              *)
(***************************************************************************)
U8(x) == x % 256
U16(x) == x % 65536
\* x & y, x | y, x ^ y on non-negative values
RECURSIVE BitAnd(_, _)
BitAnd(x, y) ==
  IF x = 0 \/ y = 0 THEN 0
  ELSE (x % 2) * (y % 2) + 2 * BitAnd(x \div 2, y \div 2)

RECURSIVE BitOr(_, _)
BitOr(x, y) ==
  IF x = 0 THEN y ELSE IF y = 0 THEN x
  ELSE (IF x % 2 = 1 \/ y % 2 = 1 THEN 1 ELSE 0) + 2 * BitOr(x \div 2, y \div 2)

RECURSIVE BitXor(_, _)
BitXor(x, y) ==
  IF x = 0 THEN y ELSE IF y = 0 THEN x
  ELSE ((x + y) % 2) + 2 * BitXor(x \div 2, y \div 2)

\* (x & (1 << n)) != 0
Bit(x, n) == (x \div (2 ^ n)) % 2 = 1
\* x | (1 << n)
SetBit(x, n) == IF Bit(x, n) THEN x ELSE x + 2 ^ n
\* x & ~(1 << n)
ClrBit(x, n) == IF Bit(x, n) THEN x - 2 ^ n ELSE x
\* base >> n
Shr(base, n) == base \div (2 ^ n)

\* The member of a one-element set: Only({ e : x \in {v} }) is e with x
\* standing for the value of v.
Only(S) == CHOOSE x \in S : TRUE

(***************************************************************************)
(* The cards that exist (the bus does not own them).  Every card has the   *)
(* constructor arguments it was built with.                                *)
(***************************************************************************)
\* rom_card(0x000E, 4, 0x5A), ram_card(0x0010, 4, 0x00), ram_card(0x0020, 2),
\* ram_card(0x0011, 0), serial_card(0x10), serial_card(0x11), and the
\* system memory ram_card(0x0000, 64, 0x76), the boot ROM
\* rom_card(0x0000, 16, 0x00)
CardPool ==
  [ rom  |-> [kind |-> "data", start_adr |-> 14, capacity |-> 4, fill |-> 90, lock |-> TRUE],
    ram  |-> [kind |-> "data", start_adr |-> 16, capacity |-> 4, fill |-> 0, lock |-> FALSE],
    ram2 |-> [kind |-> "data", start_adr |-> 32, capacity |-> 2, fill |-> BAD_U8, lock |-> FALSE],
    nil  |-> [kind |-> "data", start_adr |-> 17, capacity |-> 0, fill |-> BAD_U8, lock |-> FALSE],
    ser  |-> [kind |-> "serial", start_adr |-> 16, capacity |-> SERIAL_IO_ADDRESSES, fill |-> 0, lock |-> FALSE],
    ser2 |-> [kind |-> "serial", start_adr |-> 17, capacity |-> SERIAL_IO_ADDRESSES, fill |-> 0, lock |-> FALSE],
    mem  |-> [kind |-> "data", start_adr |-> 0, capacity |-> 64, fill |-> 118, lock |-> FALSE],
    rom0 |-> [kind |-> "data", start_adr |-> 0, capacity |-> 16, fill |-> 0, lock |-> TRUE] ]

CardIds == DOMAIN CardPool
DataCardIds == {c \in CardIds : CardPool[c].kind = "data"}
SerialCardIds == {c \in CardIds : CardPool[c].kind = "serial"}

VARIABLES
  cards,             \* bus::cards, slot -> card or NO_CARD
  ignore_conflicts,  \* bus::ignore_conflicts, slot -> bool
  data,              \* data_card::data of every data card
  ser,               \* serial_card state (registers, divide_by, rts, endpoint)
  irq_raised,        \* card::irq_raised of every card
  state,             \* cpu_state::registers, pair index -> u16
  cpu,               \* the other fields of cpu: just_booted, halted,
                     \* do_handle_bdos, interrupts_enabled, ext_op, ext_op_idx,
                     \* fetch_ptr
  calls,             \* how many CPU API calls other than step() were made
  lastOp             \* the last API call: its arguments, outcome, deliveries

vars == <<cards, ignore_conflicts, data, ser, irq_raised, state, cpu, calls, lastOp>>

Slots == 0 .. (MAX_BUS_CARDS - 1)

(***************************************************************************)
(* data_card                                                               *)
(***************************************************************************)
\* data_card::data_card(start_adr, capacity, fill, lock): data.resize(capacity, fill)
data_card_init(c) == [i \in 1 .. CardPool[c].capacity |-> CardPool[c].fill]

\* card::is_w_locked (write_locked is set by the constructor)
is_w_locked(c) == CardPool[c].lock

\* data_card::read: data[adr - start_adr]; past the size of the vector (only
\* after data.clear()) operator[] is undefined behaviour and the byte read is
\* W.oob, which the caller draws from the outcomes
data_card_read(W, c, adr) ==
  [val |-> IF adr - CardPool[c].start_adr + 1 \in DOMAIN W.data[c]
             THEN W.data[c][adr - CardPool[c].start_adr + 1]
             ELSE W.oob,
   W |-> W]

\* data_card::clear: if (!write_locked) data.clear();
data_card_clear(W, c) ==
  IF ~is_w_locked(c) THEN [W EXCEPT !.data[c] = <<>>] ELSE W

\* a data_card::write that does not look at write_locked
data_card_write_unlocked(W, c, adr, byte) ==
  [W EXCEPT !.data[c][adr - CardPool[c].start_adr + 1] = byte]

\* data_card::write: honours write_locked
data_card_write(W, c, adr, byte) ==
  IF ~is_w_locked(c)
    THEN [W EXCEPT !.data[c][adr - CardPool[c].start_adr + 1] = byte]
    ELSE W

\* data_card::write_force: data[adr - start_adr] = byte
data_card_write_force(W, c, adr, byte) ==
  [W EXCEPT !.data[c][adr - CardPool[c].start_adr + 1] = byte]

(***************************************************************************)
(* serial_card (6850 ACIA) and its endpoint (pty)                          *)
(***************************************************************************)
\* serial_status_flags bit positions
RDRF_BIT == 0
TDRE_BIT == 1
IRQ_BIT == 7

\* serial_card::reset
serial_reset(s) ==
  [s EXCEPT !.TX_DATA = 0, !.RX_DATA = 0,
            !.STATUS = SetBit(0, TDRE_BIT),
            !.CONTROL = 149,
            !.divide_by = 4,
            !.baud = Shr(SERIAL_BASE_CLOCK, 4),
            !.rts = TRUE]

\* serial_card::serial_card: serial.open() (B300-8N1), then reset()
serial_card_init ==
  serial_reset([TX_DATA |-> 0, RX_DATA |-> 0, CONTROL |-> 0, STATUS |-> 0,
                divide_by |-> 0, rts |-> FALSE, baud |-> 300,
                fmt |-> <<8, "NONE", 1>>, break_sent |-> FALSE,
                rxq |-> <<>>, txlog |-> <<>>])

\* a serial_card::read whose data-port read clears RDRF, as a 6850 does
serial_card_read_clears_RDRF(W, c, adr) ==
  Only({ [val |-> IF (adr % 256) = CardPool[c].start_adr THEN s1.STATUS
                  ELSE IF (adr % 256) = CardPool[c].start_adr + 1 THEN s1.RX_DATA
                  ELSE BAD_U8,
          W |-> [W EXCEPT !.ser[c] =
                   IF (adr % 256) = CardPool[c].start_adr + 1
                     THEN [s1 EXCEPT !.STATUS = ClrBit(@, RDRF_BIT)] ELSE s1]] :
         s1 \in { IF ~Bit(W.ser[c].STATUS, RDRF_BIT) /\ Len(W.ser[c].rxq) > 0
                    THEN [W.ser[c] EXCEPT !.RX_DATA = Head(W.ser[c].rxq),
                                          !.rxq = Tail(@),
                                          !.STATUS = SetBit(@, RDRF_BIT)]
                    ELSE W.ser[c] } })

\* a serial_card::read that returns the registers before it polls the endpoint
serial_card_read_stale(W, c, adr) ==
  [val |-> IF (adr % 256) = CardPool[c].start_adr THEN W.ser[c].STATUS
           ELSE IF (adr % 256) = CardPool[c].start_adr + 1 THEN W.ser[c].RX_DATA
           ELSE BAD_U8,
   W |-> IF ~Bit(W.ser[c].STATUS, RDRF_BIT) /\ Len(W.ser[c].rxq) > 0
           THEN [W EXCEPT !.ser[c].RX_DATA = Head(W.ser[c].rxq),
                          !.ser[c].rxq = Tail(@),
                          !.ser[c].STATUS = SetBit(@, RDRF_BIT)]
           ELSE W]

\* serial_card::read
serial_card_read(W, c, adr) ==
  Only({ [val |-> IF (adr % 256) = CardPool[c].start_adr THEN s1.STATUS
                  ELSE IF (adr % 256) = CardPool[c].start_adr + 1 THEN s1.RX_DATA
                  ELSE BAD_U8,
          W |-> [W EXCEPT !.ser[c] = s1]] :
         s1 \in { IF ~Bit(W.ser[c].STATUS, RDRF_BIT) /\ Len(W.ser[c].rxq) > 0
                    THEN [W.ser[c] EXCEPT !.RX_DATA = Head(W.ser[c].rxq),
                                          !.rxq = Tail(@),
                                          !.STATUS = SetBit(@, RDRF_BIT)]
                    ELSE W.ser[c] } })

\* word select table of serial_card::write, (byte & 0b00011100) >> 2
WordSelect(w) ==
  CASE w = 0 -> <<7, "EVEN", 2>>
    [] w = 1 -> <<7, "ODD", 2>>
    [] w = 2 -> <<7, "EVEN", 1>>
    [] w = 3 -> <<7, "ODD", 1>>
    [] w = 4 -> <<8, "NONE", 2>>
    [] w = 5 -> <<8, "NONE", 1>>
    [] w = 6 -> <<8, "EVEN", 1>>
    [] w = 7 -> <<8, "ODD", 1>>

\* a control-port branch whose interrupt enable bit also flags a received byte
serial_write_control_sets_RDRF(s, byte) ==
  [ (CASE byte % 4 = 0 -> [s EXCEPT !.divide_by = 1, !.baud = Shr(SERIAL_BASE_CLOCK, 1)]
       [] byte % 4 = 1 -> [s EXCEPT !.divide_by = 4, !.baud = Shr(SERIAL_BASE_CLOCK, 4)]
       [] byte % 4 = 2 -> [s EXCEPT !.divide_by = 6, !.baud = Shr(SERIAL_BASE_CLOCK, 6)]
       [] byte % 4 = 3 -> serial_reset(s))
    EXCEPT !.fmt = WordSelect((byte \div 4) % 8),
           !.rts = ((byte \div 32) % 4 # 2),
           !.break_sent = ((byte \div 32) % 4 = 3) \/ @,
           !.STATUS = IF Bit(byte, 7) THEN SetBit(SetBit(@, IRQ_BIT), RDRF_BIT)
                      ELSE ClrBit(@, IRQ_BIT),
           !.CONTROL = byte ]

\* the control-port branch of serial_card::write
serial_write_control(s, byte) ==
  [ (CASE byte % 4 = 0 -> [s EXCEPT !.divide_by = 1, !.baud = Shr(SERIAL_BASE_CLOCK, 1)]
       [] byte % 4 = 1 -> [s EXCEPT !.divide_by = 4, !.baud = Shr(SERIAL_BASE_CLOCK, 4)]
       [] byte % 4 = 2 -> [s EXCEPT !.divide_by = 6, !.baud = Shr(SERIAL_BASE_CLOCK, 6)]
       [] byte % 4 = 3 -> serial_reset(s))
    EXCEPT !.fmt = WordSelect((byte \div 4) % 8),
           !.rts = ((byte \div 32) % 4 # 2),
           !.break_sent = ((byte \div 32) % 4 = 3) \/ @,
           !.STATUS = IF Bit(byte, 7) THEN SetBit(@, IRQ_BIT) ELSE ClrBit(@, IRQ_BIT),
           !.CONTROL = byte ]

\* a serial_card::write that flushes TX_DATA whatever TDRE says
serial_card_write_always_flush(W, c, adr, byte) ==
  Only({ [W EXCEPT !.ser[c] =
            [s1 EXCEPT !.txlog = Append(@, s1.TX_DATA),
                       !.STATUS = SetBit(@, TDRE_BIT)]] :
         s1 \in { IF (adr % 256) = CardPool[c].start_adr
                    THEN serial_write_control(W.ser[c], byte)
                  ELSE IF (adr % 256) = CardPool[c].start_adr + 1
                    THEN [W.ser[c] EXCEPT !.TX_DATA = byte,
                                          !.STATUS = ClrBit(@, TDRE_BIT)]
                  ELSE W.ser[c] } })

\* serial_card::write
serial_card_write(W, c, adr, byte) ==
  Only({ [W EXCEPT !.ser[c] =
            IF ~Bit(s1.STATUS, TDRE_BIT)
              THEN [s1 EXCEPT !.txlog = Append(@, s1.TX_DATA),
                              !.STATUS = SetBit(@, TDRE_BIT)]
              ELSE s1] :
         s1 \in { IF (adr % 256) = CardPool[c].start_adr
                    THEN serial_write_control(W.ser[c], byte)
                  ELSE IF (adr % 256) = CardPool[c].start_adr + 1
                    THEN [W.ser[c] EXCEPT !.TX_DATA = byte,
                                          !.STATUS = ClrBit(@, TDRE_BIT)]
                  ELSE W.ser[c] } })

(***************************************************************************)
(* card interface (virtual dispatch)                                       *)
(***************************************************************************)
\* data_card::is_io / serial_card::is_io
is_io(c) == CardPool[c].kind = "serial"

\* data_card::in_range / serial_card::in_range
in_range(c, adr) ==
  IF CardPool[c].kind = "data"
    THEN adr >= CardPool[c].start_adr
         /\ adr < CardPool[c].start_adr + CardPool[c].capacity
    ELSE (adr % 256) >= CardPool[c].start_adr
         /\ (adr % 256) < CardPool[c].start_adr + SERIAL_IO_ADDRESSES

\* identify().start_adr
identify_start_adr(c) == CardPool[c].start_adr

\* card::read
card_read(W, c, adr) ==
  IF CardPool[c].kind = "data" THEN data_card_read(W, c, adr)
  ELSE serial_card_read(W, c, adr)

\* card::write
card_write(W, c, adr, byte) ==
  IF CardPool[c].kind = "data" THEN data_card_write(W, c, adr, byte)
  ELSE serial_card_write(W, c, adr, byte)

\* card::write_force (serial_card::write_force is write)
card_write_force(W, c, adr, byte) ==
  IF CardPool[c].kind = "data" THEN data_card_write_force(W, c, adr, byte)
  ELSE serial_card_write(W, c, adr, byte)

(***************************************************************************)
(* bus                                                                     *)
(***************************************************************************)
\* a match that does not compare ior/iow with is_io()
matches_any_space(cds, i, adr, io) ==
  cds[i] # NO_CARD /\ in_range(cds[i], adr)

\* the condition of the loops of bus::read / bus::write
matches(cds, i, adr, io) ==
  cds[i] # NO_CARD /\ in_range(cds[i], adr) /\ io = is_io(cds[i])

\* bus::test_for_bus_conflict, the loop from slot i on
RECURSIVE conflict_from(_, _, _, _)
conflict_from(cds, ign, card, i) ==
  IF i = MAX_BUS_CARDS THEN FALSE
  ELSE IF ~ign[i] /\ cds[i] # NO_CARD
          /\ is_io(cds[i]) = is_io(card)
          /\ (in_range(cds[i], identify_start_adr(card))
              \/ in_range(card, identify_start_adr(cds[i])))
    THEN TRUE
    ELSE conflict_from(cds, ign, card, i + 1)

\* a conflict test that only asks whether the new card starts inside an
\* existing card
test_for_bus_conflict_one_way(cds, ign, card) ==
  \E i \in 0 .. (MAX_BUS_CARDS - 1) :
    /\ ~ign[i] /\ cds[i] # NO_CARD
    /\ is_io(cds[i]) = is_io(card)
    /\ in_range(cds[i], identify_start_adr(card))

test_for_bus_conflict(cds, ign, card) == conflict_from(cds, ign, card, 0)

\* bus::read, the loop from slot i on: the first matching card answers
RECURSIVE bus_read_from(_, _, _, _, _)
bus_read_from(cds, W, i, adr, ior) ==
  IF i = MAX_BUS_CARDS THEN [val |-> BAD_U8, W |-> W, deliv |-> <<>>]
  ELSE IF matches(cds, i, adr, ior)
    THEN Only({ [val |-> r.val, W |-> r.W, deliv |-> <<i>>] :
                r \in {card_read(W, cds[i], adr)} })
    ELSE bus_read_from(cds, W, i + 1, adr, ior)

\* a read that lets the last matching card answer
RECURSIVE bus_read_last_from(_, _, _, _, _)
bus_read_last_from(cds, W, i, adr, ior) ==
  IF i = MAX_BUS_CARDS THEN [val |-> BAD_U8, W |-> W, deliv |-> <<>>]
  ELSE LET r == bus_read_last_from(cds, W, i + 1, adr, ior)
       IN IF r.deliv # <<>> THEN r
          ELSE IF matches(cds, i, adr, ior)
            THEN LET q == card_read(W, cds[i], adr)
                 IN [val |-> q.val, W |-> q.W, deliv |-> <<i>>]
            ELSE r

bus_read_last(cds, W, adr, ior) == bus_read_last_from(cds, W, 0, adr, ior)

bus_read(cds, W, adr, ior) == bus_read_from(cds, W, 0, adr, ior)

\* bus::write, the loop from slot i on: every matching card is written
RECURSIVE bus_write_from(_, _, _, _, _, _)
bus_write_from(cds, W, i, adr, byte, iow) ==
  IF i = MAX_BUS_CARDS THEN [W |-> W, deliv |-> <<>>]
  ELSE IF matches(cds, i, adr, iow)
    THEN Only({ [W |-> r.W, deliv |-> <<i>> \o r.deliv] :
                r \in {bus_write_from(cds, card_write(W, cds[i], adr, byte),
                                      i + 1, adr, byte, iow)} })
    ELSE bus_write_from(cds, W, i + 1, adr, byte, iow)

\* a write that stops at the first matching card
RECURSIVE bus_write_first_from(_, _, _, _, _, _)
bus_write_first_from(cds, W, i, adr, byte, iow) ==
  IF i = MAX_BUS_CARDS THEN [W |-> W, deliv |-> <<>>]
  ELSE IF matches(cds, i, adr, iow)
    THEN [W |-> card_write(W, cds[i], adr, byte), deliv |-> <<i>>]
    ELSE bus_write_first_from(cds, W, i + 1, adr, byte, iow)

bus_write_first(cds, W, adr, byte, iow) == bus_write_first_from(cds, W, 0, adr, byte, iow)

bus_write(cds, W, adr, byte, iow) == bus_write_from(cds, W, 0, adr, byte, iow)

\* bus::write_force, the loop from slot i on
RECURSIVE bus_write_force_from(_, _, _, _, _, _)
bus_write_force_from(cds, W, i, adr, byte, iow) ==
  IF i = MAX_BUS_CARDS THEN [W |-> W, deliv |-> <<>>]
  ELSE IF matches(cds, i, adr, iow)
    THEN Only({ [W |-> r.W, deliv |-> <<i>> \o r.deliv] :
                r \in {bus_write_force_from(cds, card_write_force(W, cds[i], adr, byte),
                                            i + 1, adr, byte, iow)} })
    ELSE bus_write_force_from(cds, W, i + 1, adr, byte, iow)

bus_write_force(cds, W, adr, byte, iow) ==
  bus_write_force_from(cds, W, 0, adr, byte, iow)

\* card::is_irq: return irq_raised
card_is_irq(irq, c) == irq[c]

\* card::raise_irq(value): irq_raised = value
raise_irq(irq, c, value) == [irq EXCEPT ![c] = value]

\* data_card::get_irq / serial_card::get_irq: { BAD_U8, BAD_U8, BAD_U8 }
card_get_irq(c) == <<BAD_U8, BAD_U8, BAD_U8>>

\* bus::is_irq, the loop from slot i on
RECURSIVE bus_is_irq_from(_, _, _)
bus_is_irq_from(cds, irq, i) ==
  IF i = MAX_BUS_CARDS THEN FALSE
  ELSE IF cds[i] # NO_CARD /\ card_is_irq(irq, cds[i]) THEN TRUE
  ELSE bus_is_irq_from(cds, irq, i + 1)

bus_is_irq(cds, irq) == bus_is_irq_from(cds, irq, 0)

\* bus::get_irq, the loop from slot i on: the first card with an IRQ raised
\* answers; deliv is the slot whose card answered
RECURSIVE bus_get_irq_from(_, _, _)
bus_get_irq_from(cds, irq, i) ==
  IF i = MAX_BUS_CARDS
    THEN [result |-> "runtime_error", inst |-> <<>>, deliv |-> <<>>]
  ELSE IF cds[i] # NO_CARD /\ card_is_irq(irq, cds[i])
    THEN [result |-> "ok", inst |-> card_get_irq(cds[i]), deliv |-> <<i>>]
  ELSE bus_get_irq_from(cds, irq, i + 1)

\* a get_irq that lets the last card with an IRQ raised answer
RECURSIVE bus_get_irq_last_from(_, _, _)
bus_get_irq_last_from(cds, irq, i) ==
  IF i < 0
    THEN [result |-> "runtime_error", inst |-> <<>>, deliv |-> <<>>]
  ELSE IF cds[i] # NO_CARD /\ card_is_irq(irq, cds[i])
    THEN [result |-> "ok", inst |-> card_get_irq(cds[i]), deliv |-> <<i>>]
  ELSE bus_get_irq_last_from(cds, irq, i - 1)

bus_get_irq_last(cds, irq) == bus_get_irq_last_from(cds, irq, MAX_BUS_CARDS - 1)

bus_get_irq(cds, irq) == bus_get_irq_from(cds, irq, 0)

\* bus::size
bus_size == 65536

\* The addresses at which a card object may live, as the set of indexes of
\* the non-zero bytes among the low six bytes of the pointer (little endian;
\* bytes 6 and 7 of a user-space pointer are zero): a heap object, a heap
\* object whose lowest address byte is zero, an object of a non-PIE image.
PointerBytes == { {0, 1, 2, 3, 4, 5}, {1, 2, 3, 4, 5}, {0, 1, 2} }

\* a bus::insert that binds the card before it tests for a conflict
insert_binds_first(cds, ign, card, slot, allow_conflict, pb) ==
  IF card = NO_CARD
    THEN [result |-> "invalid_argument", cards |-> cds, ign |-> ign]
  ELSE IF slot > MAX_BUS_CARDS
    THEN [result |-> "out_of_range", cards |-> cds, ign |-> ign]
  ELSE IF (IF slot = MAX_BUS_CARDS THEN \E i \in 0 .. 7 : ign[i]
           ELSE cds[slot] # NO_CARD)
    THEN [result |-> "slot_occupied", cards |-> cds, ign |-> ign]
  ELSE IF ~allow_conflict /\ test_for_bus_conflict(cds, ign, card)
    THEN [result |-> "conflict",
          cards |-> IF slot = MAX_BUS_CARDS THEN cds ELSE [cds EXCEPT ![slot] = card],
          ign |-> ign]
  ELSE IF slot = MAX_BUS_CARDS
    THEN [result |-> "ok", cards |-> cds,
          ign |-> [i \in Slots |-> IF i <= 7 THEN i \in pb ELSE ign[i]]]
  ELSE [result |-> "ok",
        cards |-> [cds EXCEPT ![slot] = card],
        ign |-> [ign EXCEPT ![slot] = allow_conflict]]

\* bus::insert.  The guard is `slot > MAX_BUS_CARDS`, so slot = MAX_BUS_CARDS
\* passes it and cards[MAX_BUS_CARDS] / ignore_conflicts[MAX_BUS_CARDS] are
\* accessed out of bounds.  std::array<card*, 18> is followed in the object by
\* std::array<bool, 18>: cards[18] is the eight bytes ignore_conflicts[0..7],
\* ignore_conflicts[18] is a padding byte of the object.  pb is the pointer
\* value stored, any member of PointerBytes.
insert(cds, ign, card, slot, allow_conflict, pb) ==
  IF card = NO_CARD
    THEN [result |-> "invalid_argument", cards |-> cds, ign |-> ign]
  ELSE IF slot > MAX_BUS_CARDS
    THEN [result |-> "out_of_range", cards |-> cds, ign |-> ign]
  ELSE IF (IF slot = MAX_BUS_CARDS THEN \E i \in 0 .. 7 : ign[i]
           ELSE cds[slot] # NO_CARD)
    THEN [result |-> "slot_occupied", cards |-> cds, ign |-> ign]
  ELSE IF ~allow_conflict /\ test_for_bus_conflict(cds, ign, card)
    THEN [result |-> "conflict", cards |-> cds, ign |-> ign]
  ELSE IF slot = MAX_BUS_CARDS
    THEN [result |-> "ok", cards |-> cds,
          ign |-> [i \in Slots |-> IF i <= 7 THEN i \in pb ELSE ign[i]]]
  ELSE [result |-> "ok",
        cards |-> [cds EXCEPT ![slot] = card],
        ign |-> [ign EXCEPT ![slot] = allow_conflict]]

\* a remove that forgets to unbind the card
remove_keeps_card(cds, ign, slot) ==
  IF slot >= MAX_BUS_CARDS
    THEN [result |-> "out_of_range", cards |-> cds, ign |-> ign]
    ELSE [result |-> "ok", cards |-> cds,
          ign |-> [ign EXCEPT ![slot] = FALSE]]

\* bus::remove
remove(cds, ign, slot) ==
  IF slot >= MAX_BUS_CARDS
    THEN [result |-> "out_of_range", cards |-> cds, ign |-> ign]
    ELSE [result |-> "ok",
          cards |-> [cds EXCEPT ![slot] = NO_CARD],
          ign |-> [ign EXCEPT ![slot] = FALSE]]

(***************************************************************************)
(* cpu_state: the register file                                            *)
(***************************************************************************)
\* enum class cpu_registers8
cpu_registers8 ==
  [ A |-> 0, F |-> 1, B |-> 2, C |-> 3, D |-> 4, E |-> 5, H |-> 6, L |-> 7,
    HIGH_SP |-> 8, LOW_SP |-> 9, HIGH_PC |-> 10, LOW_PC |-> 11, M |-> 12 ]

\* is_memref
is_memref(reg) == reg = cpu_registers8.M

\* cpu_reg8_decode[i]
cpu_reg8_decode(i) ==
  << cpu_registers8.B, cpu_registers8.C, cpu_registers8.D, cpu_registers8.E,
     cpu_registers8.H, cpu_registers8.L, cpu_registers8.M, cpu_registers8.A >>[i + 1]

\* enum class cpu_registers16 (PSW = AF)
cpu_registers16 == [ AF |-> 0, BC |-> 1, DE |-> 2, HL |-> 3, SP |-> 4, PC |-> 5 ]

\* enum class cpu_flags, each flag at its bit
cpu_flags == [ C |-> 1, P |-> 4, AC |-> 16, Z |-> 64, S |-> 128 ]

\* cpu_state::get_register8: (registers[reg >> 1] >> (8 * !(reg & 1))) & 0xFF
get_register8(regs, reg) ==
  Shr(regs[reg \div 2], 8 * (IF reg % 2 = 1 THEN 0 ELSE 1)) % 256

\* cpu_state::get_register16
get_register16(regs, pair) == regs[pair]

\* set_register8 that stores the byte and clears the other half
set_register8_whole(regs, reg, value) ==
  [regs EXCEPT ![reg \div 2] = U8(value) * (2 ^ (8 * (IF reg % 2 = 1 THEN 0 ELSE 1)))]

\* cpu_state::set_register8(reg, u8 value):
\*   registers[reg >> 1] &= (0xFF00 >> (8 * !(reg & 1)));
\*   registers[reg >> 1] |= (value << (8 * !(reg & 1)));
set_register8(regs, reg, value) ==
  LET sh == 8 * (IF reg % 2 = 1 THEN 0 ELSE 1)
      kept == BitAnd(regs[reg \div 2], Shr(65280, sh))
  IN [regs EXCEPT ![reg \div 2] = U16(BitOr(kept, U8(value) * (2 ^ sh)))]

\* cpu_state::set_register16(pair, u16 value): registers[pair] = value
set_register16(regs, pair, value) == [regs EXCEPT ![pair] = U16(value)]

\* cpu_state::get_then_inc_register8
get_then_inc_register8(regs, reg) ==
  [val |-> get_register8(regs, reg),
   regs |-> set_register8(regs, reg, get_register8(regs, reg) + 1)]

\* cpu_state::get_then_inc_register16: registers[pair]++
get_then_inc_register16(regs, pair) ==
  [val |-> regs[pair], regs |-> [regs EXCEPT ![pair] = U16(@ + 1)]]

\* cpu_state::inc_register8
inc_register8(regs, reg) == set_register8(regs, reg, get_register8(regs, reg) + 1)

\* cpu_state::inc_register16: ++registers[pair]
inc_register16(regs, pair) == [regs EXCEPT ![pair] = U16(@ + 1)]

\* cpu_state::get_flag
get_flag(regs, flag) == BitAnd(get_register8(regs, cpu_registers8.F), flag) # 0

\* cpu_state::set_flag: F | flag
set_flag(regs, flag) ==
  set_register8(regs, cpu_registers8.F,
                BitOr(get_register8(regs, cpu_registers8.F), flag))

\* cpu_state::unset_flag: F & ~flag
unset_flag(regs, flag) ==
  set_register8(regs, cpu_registers8.F,
                BitAnd(get_register8(regs, cpu_registers8.F), 255 - flag))

\* cpu_state::set_if_flag
set_if_flag(regs, flag, cond) ==
  IF cond THEN set_flag(regs, flag) ELSE unset_flag(regs, flag)

\* the number of one bits
RECURSIVE PopCount(_)
PopCount(x) == IF x = 0 THEN 0 ELSE (x % 2) + PopCount(x \div 2)

\* __builtin_parity: 1 when the number of one bits is odd
builtin_parity(x) == PopCount(x) % 2 = 1

\* cpu_state::set_Z_S_P_flags(u8 is)
set_Z_S_P_flags(regs, is) ==
  set_if_flag(set_if_flag(set_if_flag(regs, cpu_flags.Z, U8(is) = 0),
                          cpu_flags.S, BitAnd(U8(is), 128) # 0),
              cpu_flags.P, ~builtin_parity(U8(is)))

\* cpu_state::cpu_state: registers({}), then set_register16(AF, 0x02)
cpu_state_init ==
  set_register16([i \in 0 .. 5 |-> 0], cpu_registers16.AF, 2)

(***************************************************************************)
(* cpu<bus&>: the interpreter.  An operator takes the machine m (register  *)
(* file, cpu fields, the bus and its cards, the accesses and the output of *)
(* the call so far, the exception thrown) and returns the machine after    *)
(* the method.                                                             *)
(***************************************************************************)
\* the build: ENABLE_TRACE is not defined by any source file
ENABLE_TRACE == FALSE

\* cpu::cpu: just_booted(true), halted(false), do_handle_bdos(false),
\* interrupts_enabled(true), ext_op_idx(false), fetch_ptr = &fetch_default;
\* ext_op is written by execute(opcode, op1, op2) before fetch_ext reads it
cpu_init ==
  [ just_booted |-> TRUE, halted |-> FALSE, do_handle_bdos |-> FALSE,
    interrupts_enabled |-> TRUE, ext_op |-> <<0, 0>>, ext_op_idx |-> FALSE,
    fetch_ext |-> FALSE ]

Machine(cds, W, regs, c) ==
  [ regs |-> regs, cpu |-> c, cds |-> cds, W |-> W,
    trace |-> <<>>, printed |-> <<>>, ops |-> <<>>, err |-> "none" ]

\* bus_index_iface::operator u8: bus_ref.read(adr)
cardbus_get(m, adr) ==
  Only({ [val |-> r.val,
          m |-> [m EXCEPT !.W = r.W, !.trace = Append(@, <<"read", U16(adr), FALSE>>)]] :
         r \in {bus_read(m.cds, m.W, U16(adr), FALSE)} })

\* bus_index_iface::operator=(u8): bus_ref.write(adr, byte)
cardbus_set(m, adr, byte) ==
  [m EXCEPT !.W = bus_write(m.cds, @, U16(adr), U8(byte), FALSE).W,
            !.trace = Append(@, <<"write", U16(adr), FALSE>>)]

\* bus_index_iface::operator++(): read, write value + 1, read again
cardbus_preinc(m, adr) ==
  Only({ cardbus_get(cardbus_set(r.m, adr, r.val + 1), adr) :
         r \in {cardbus_get(m, adr)} })

\* bus_index_iface::operator--(): read, write value - 1, read again
cardbus_predec(m, adr) ==
  Only({ cardbus_get(cardbus_set(r.m, adr, r.val + 255), adr) :
         r \in {cardbus_get(m, adr)} })

\* cpu::fetch_default: cardbus[state.get_then_inc_register16(PC)]
fetch_default(m) ==
  Only({ cardbus_get([m EXCEPT !.regs = r.regs], r.val) :
         r \in {get_then_inc_register16(m.regs, cpu_registers16.PC)} })

\* cpu::fetch_ext: idx = ext_op_idx; ext_op_idx = !ext_op_idx; ext_op[idx]
fetch_ext(m) ==
  [val |-> m.cpu.ext_op[IF m.cpu.ext_op_idx THEN 2 ELSE 1],
   m |-> [m EXCEPT !.cpu.ext_op_idx = ~@]]

\* cpu::set_fetch_ext (bus interface)
set_fetch_ext(m, use_ext) == [m EXCEPT !.cpu.fetch_ext = use_ext]

\* cpu::fetch: (this->*fetch_ptr)()
fetch(m) == IF m.cpu.fetch_ext THEN fetch_ext(m) ELSE fetch_default(m)

\* cpu::fetch2: lo = fetch, hi = fetch, (hi << 8) | lo
fetch2(m) ==
  Only({ Only({ [val |-> hi.val * 256 + lo.val, m |-> hi.m] :
                hi \in {fetch(lo.m)} }) :
         lo \in {fetch(m)} })

\* cpu_state::flgC() / flgAC(): the flag as 0 or 1
flgC(regs) == IF get_flag(regs, cpu_flags.C) THEN 1 ELSE 0
flgAC(regs) == IF get_flag(regs, cpu_flags.AC) THEN 1 ELSE 0

\* cpu_state::flgC(bool) / flgAC(bool)
set_flgC(regs, cond) == set_if_flag(regs, cpu_flags.C, cond)
set_flgAC(regs, cond) == set_if_flag(regs, cpu_flags.AC, cond)

\* cpu::_trace_error: throws only in the trace build
trace_error(m) ==
  IF ENABLE_TRACE THEN [m EXCEPT !.err = "runtime_error"] ELSE m

\* cpu::resolve_flag_cond
resolve_flag_cond(m, cc) ==
  CASE cc = 0 -> ~get_flag(m.regs, cpu_flags.Z)
    [] cc = 1 -> get_flag(m.regs, cpu_flags.Z)
    [] cc = 2 -> ~get_flag(m.regs, cpu_flags.C)
    [] cc = 3 -> get_flag(m.regs, cpu_flags.C)
    [] cc = 4 -> ~get_flag(m.regs, cpu_flags.P)
    [] cc = 5 -> get_flag(m.regs, cpu_flags.P)
    [] cc = 6 -> ~get_flag(m.regs, cpu_flags.S)
    [] cc = 7 -> get_flag(m.regs, cpu_flags.S)
    [] OTHER -> FALSE

(***************************************************************************)
(* Opcode implementations                                                  *)
(***************************************************************************)
NOP(m) == m

\* an LXI that takes the SP encoding for AF, as PUSH and POP do
LXI_psw(m, pair) ==
  Only({ [f.m EXCEPT !.regs =
            set_register16(@, IF pair = cpu_registers16.SP
                                THEN cpu_registers16.AF ELSE pair, f.val)] :
         f \in {fetch2(m)} })

LXI(m, pair) ==
  Only({ [f.m EXCEPT !.regs = set_register16(@, pair, f.val)] : f \in {fetch2(m)} })

STAX(m, pair) ==
  cardbus_set(m, get_register16(m.regs, pair), get_register8(m.regs, cpu_registers8.A))

INX(m, pair) == [m EXCEPT !.regs = inc_register16(@, pair)]

\* u8 value = ++cardbus[HL]; flgAC((value ^ (value - 1)) & 0x10)
INR_M(m) ==
  Only({ [r.m EXCEPT !.regs =
            set_Z_S_P_flags(
              set_flgAC(@, BitAnd(BitXor(r.val, U8(r.val + 255)), 16) # 0),
              r.val)] :
         r \in {cardbus_preinc(m, get_register16(m.regs, cpu_registers16.HL))} })

INR(m, reg) ==
  IF is_memref(reg) THEN INR_M(m)
  ELSE Only({ [m EXCEPT !.regs =
                 set_Z_S_P_flags(
                   set_flgAC(inc_register8(@, reg),
                             BitAnd(BitXor(value, U8(value + 255)), 16) # 0),
                   value)] :
              value \in {get_register8(inc_register8(m.regs, reg), reg)} })

\* a DCR M that sets AC when the decrement borrowed out of bit 3
DCR_M_borrow_sets_AC(m) ==
  Only({ [r.m EXCEPT !.regs =
            set_Z_S_P_flags(
              set_flgAC(@, BitAnd(BitXor(r.val, r.val + 1), 16) # 0),
              r.val)] :
         r \in {cardbus_predec(m, get_register16(m.regs, cpu_registers16.HL))} })

\* u8 value = --cardbus[HL]; flgAC(~(value ^ (value + 1)) & 0x10)
DCR_M(m) ==
  Only({ [r.m EXCEPT !.regs =
            set_Z_S_P_flags(
              set_flgAC(@, BitAnd(BitXor(r.val, r.val + 1), 16) = 0),
              r.val)] :
         r \in {cardbus_predec(m, get_register16(m.regs, cpu_registers16.HL))} })

DCR(m, reg) ==
  IF is_memref(reg) THEN DCR_M(m)
  ELSE Only({ [m EXCEPT !.regs =
                 set_Z_S_P_flags(
                   set_flgAC(set_register8(@, reg, value),
                             BitAnd(BitXor(value, value + 1), 16) = 0),
                   value)] :
              value \in {U8(get_register8(m.regs, reg) + 255)} })

MVI_M(m) ==
  Only({ cardbus_set(f.m, get_register16(f.m.regs, cpu_registers16.HL), f.val) :
         f \in {fetch(m)} })

MVI(m, reg) ==
  IF is_memref(reg) THEN MVI_M(m)
  ELSE Only({ [f.m EXCEPT !.regs = set_register8(@, reg, f.val)] : f \in {fetch(m)} })

\* u32 result = HL + pair; flgC(result & 0xFFFF0000); HL(result)
DAD(m, pair) ==
  [m EXCEPT !.regs =
     set_register16(
       set_flgC(@, get_register16(@, cpu_registers16.HL) + get_register16(@, pair) >= 65536),
       cpu_registers16.HL,
       get_register16(@, cpu_registers16.HL) + get_register16(@, pair))]

LDAX(m, pair) ==
  Only({ [r.m EXCEPT !.regs = set_register8(@, cpu_registers8.A, r.val)] :
         r \in {cardbus_get(m, get_register16(m.regs, pair))} })

DCX(m, pair) ==
  [m EXCEPT !.regs = set_register16(@, pair, get_register16(@, pair) + 65535)]

\* A((a << 1) | (a >> 7)); flgC(a & 0x80)
RLC(m) ==
  LET a == get_register8(m.regs, cpu_registers8.A)
      r == set_register8(m.regs, cpu_registers8.A, BitOr(a * 2, a \div 128))
  IN [m EXCEPT !.regs = set_flgC(r, BitAnd(a, 128) # 0)]

\* A((a >> 1) | (a << 7)); flgC(a & 0x01)
RRC(m) ==
  LET a == get_register8(m.regs, cpu_registers8.A)
      r == set_register8(m.regs, cpu_registers8.A, BitOr(a \div 2, a * 128))
  IN [m EXCEPT !.regs = set_flgC(r, BitAnd(a, 1) # 0)]

\* a RAL that rotates bit 7 round into bit 0
RAL_circular(m) == RLC(m)

\* A((a << 1) | flgC()); flgC(a & 0x80)
RAL(m) ==
  LET a == get_register8(m.regs, cpu_registers8.A)
      r == set_register8(m.regs, cpu_registers8.A, BitOr(a * 2, flgC(m.regs)))
  IN [m EXCEPT !.regs = set_flgC(r, BitAnd(a, 128) # 0)]

\* A((a >> 1) | (flgC() << 7)); flgC(a & 0x01)
RAR(m) ==
  LET a == get_register8(m.regs, cpu_registers8.A)
      r == set_register8(m.regs, cpu_registers8.A, BitOr(a \div 2, flgC(m.regs) * 128))
  IN [m EXCEPT !.regs = set_flgC(r, BitAnd(a, 1) # 0)]

SHLD(m) ==
  Only({ cardbus_set(
           cardbus_set(f.m, f.val, get_register8(f.m.regs, cpu_registers8.L)),
           f.val + 1, get_register8(f.m.regs, cpu_registers8.H)) :
         f \in {fetch2(m)} })

\* u16 a = A; a += 0x06 * (...); a += 0x60 * (...); flgAC((a ^ A) & 0x10);
\* flgC(a & 0x100); A(a); set_Z_S_P_flags(a)
DAA(m) ==
  Only({ [m EXCEPT !.regs =
            set_Z_S_P_flags(
              set_register8(
                set_flgC(set_flgAC(@, BitAnd(BitXor(a, get_register8(@, cpu_registers8.A)), 16) # 0),
                         BitAnd(a, 256) # 0),
                cpu_registers8.A, a),
              a)] :
         a \in { Only({ lo + (IF BitAnd(lo, 240) > 144 \/ flgC(m.regs) = 1 THEN 96 ELSE 0) :
                        lo \in { get_register8(m.regs, cpu_registers8.A)
                                 + (IF BitAnd(get_register8(m.regs, cpu_registers8.A), 15) > 9
                                       \/ flgAC(m.regs) = 1 THEN 6 ELSE 0) } }) } })

LHLD(m) ==
  Only({ Only({ Only({ [hi.m EXCEPT !.regs = set_register8(@, cpu_registers8.H, hi.val)] :
                       hi \in {cardbus_get(
                                 [lo.m EXCEPT !.regs = set_register8(@, cpu_registers8.L, lo.val)],
                                 f.val + 1)} }) :
                lo \in {cardbus_get(f.m, f.val)} }) :
         f \in {fetch2(m)} })

\* A(~A)
CMA(m) ==
  [m EXCEPT !.regs = set_register8(@, cpu_registers8.A,
                                   255 - get_register8(@, cpu_registers8.A))]

STA(m) ==
  Only({ cardbus_set(f.m, f.val, get_register8(f.m.regs, cpu_registers8.A)) :
         f \in {fetch2(m)} })

STC(m) == [m EXCEPT !.regs = set_flgC(@, TRUE)]

LDA(m) ==
  Only({ Only({ [r.m EXCEPT !.regs = set_register8(@, cpu_registers8.A, r.val)] :
                r \in {cardbus_get(f.m, f.val)} }) :
         f \in {fetch2(m)} })

CMC(m) == [m EXCEPT !.regs = set_flgC(@, flgC(@) = 0)]

MOV_FROM_M(m, dst) ==
  Only({ [r.m EXCEPT !.regs = set_register8(@, dst, r.val)] :
         r \in {cardbus_get(m, get_register16(m.regs, cpu_registers16.HL))} })

MOV_TO_M(m, src) ==
  cardbus_set(m, get_register16(m.regs, cpu_registers16.HL), get_register8(m.regs, src))

MOV(m, dst, src) ==
  IF is_memref(src) THEN MOV_FROM_M(m, dst)
  ELSE IF is_memref(dst) THEN MOV_TO_M(m, src)
  ELSE [m EXCEPT !.regs = set_register8(@, dst, get_register8(@, src))]

HLT(m) == [m EXCEPT !.cpu.halted = TRUE]

\* an _ALU whose subtractions set AC only when the low nibble of A is
\* greater than the operand's
ALU_core_strict_borrow(m, src, alu, is_immediate) ==
  Only({ LET a == get_register8(m.regs, cpu_registers8.A)
             with == w.val
             cin == flgC(w.m.regs)
             result ==
               CASE alu = 0 -> U16(a + with)
                 [] alu = 1 -> U16(a + with + cin)
                 [] alu = 2 -> U16(a - with + 65536)
                 [] alu = 3 -> U16(a - with - cin + 65536)
                 [] alu = 4 -> BitAnd(a, with)
                 [] alu = 5 -> BitXor(a, with)
                 [] alu = 6 -> BitOr(a, with)
                 [] alu = 7 -> U16(a - with + 65536)
             r1 ==
               CASE alu = 0 -> set_flgAC(w.m.regs, (a % 16) + (with % 16) > 15)
                 [] alu = 1 -> set_flgAC(w.m.regs, (a % 16) + (with % 16) + cin > 15)
                 [] alu \in {2, 3} -> set_flgAC(w.m.regs, (a % 16) > (with % 16))
                 [] alu = 4 -> set_flgAC(w.m.regs, BitAnd(BitOr(a, with), 8) # 0)
                 [] alu \in {5, 6} -> set_flgAC(w.m.regs, FALSE)
                 [] alu = 7 -> set_Z_S_P_flags(
                                 set_flgC(set_flgAC(w.m.regs, (a % 16) > (with % 16)),
                                          BitAnd(result, 256) # 0),
                                 result)
             r2 == set_Z_S_P_flags(set_flgC(r1, BitAnd(result, 256) # 0), result)
         IN [w.m EXCEPT !.regs = IF alu # 7
                                   THEN set_register8(r2, cpu_registers8.A, result)
                                   ELSE r2] :
         w \in { IF is_immediate THEN fetch(m)
                 ELSE IF is_memref(src)
                   THEN cardbus_get(m, get_register16(m.regs, cpu_registers16.HL))
                 ELSE [val |-> get_register8(m.regs, src), m |-> m] } })

\* cpu::_ALU.  a, with and result are u16; w is the operand read (and the
\* machine after reading it).
ALU_core(m, src, alu, is_immediate) ==
  Only({ LET a == get_register8(m.regs, cpu_registers8.A)
             with == w.val
             cin == flgC(w.m.regs)
             result ==
               CASE alu = 0 -> U16(a + with)
                 [] alu = 1 -> U16(a + with + cin)
                 [] alu = 2 -> U16(a - with + 65536)
                 [] alu = 3 -> U16(a - with - cin + 65536)
                 [] alu = 4 -> BitAnd(a, with)
                 [] alu = 5 -> BitXor(a, with)
                 [] alu = 6 -> BitOr(a, with)
                 [] alu = 7 -> U16(a - with + 65536)
             r1 ==
               CASE alu = 0 -> set_flgAC(w.m.regs, (a % 16) + (with % 16) > 15)
                 [] alu = 1 -> set_flgAC(w.m.regs, (a % 16) + (with % 16) + cin > 15)
                 [] alu \in {2, 3} -> set_flgAC(w.m.regs, (a % 16) >= (with % 16))
                 [] alu = 4 -> set_flgAC(w.m.regs, BitAnd(BitOr(a, with), 8) # 0)
                 [] alu \in {5, 6} -> set_flgAC(w.m.regs, FALSE)
                 [] alu = 7 -> set_Z_S_P_flags(
                                 set_flgC(set_flgAC(w.m.regs, (a % 16) >= (with % 16)),
                                          BitAnd(result, 256) # 0),
                                 result)
             r2 == set_Z_S_P_flags(set_flgC(r1, BitAnd(result, 256) # 0), result)
         IN [w.m EXCEPT !.regs = IF alu # 7
                                   THEN set_register8(r2, cpu_registers8.A, result)
                                   ELSE r2] :
         w \in { IF is_immediate THEN fetch(m)
                 ELSE IF is_memref(src)
                   THEN cardbus_get(m, get_register16(m.regs, cpu_registers16.HL))
                 ELSE [val |-> get_register8(m.regs, src), m |-> m] } })

ALU(m, src, alu) == ALU_core(m, src, alu, FALSE)

\* an immediate ALU instruction that always clears AC
ALU_IMM_clears_AC(m, alu) ==
  [ALU_core(m, cpu_registers8.A, alu, TRUE) EXCEPT !.regs = set_flgAC(@, FALSE)]

ALU_IMM(m, alu) == ALU_core(m, cpu_registers8.A, alu, TRUE)

\* cpu::POP: the SP encoding selects AF
POP(m, pair0) ==
  Only({ Only({ [hi.m EXCEPT !.regs =
                   set_register16(
                     set_register16(@, IF pair0 = cpu_registers16.SP
                                         THEN cpu_registers16.AF ELSE pair0,
                                    hi.val * 256 + lo.val),
                     cpu_registers16.SP,
                     get_register16(
                       set_register16(@, IF pair0 = cpu_registers16.SP
                                           THEN cpu_registers16.AF ELSE pair0,
                                      hi.val * 256 + lo.val),
                       cpu_registers16.SP) + 2)] :
                hi \in {cardbus_get(lo.m, get_register16(lo.m.regs, cpu_registers16.SP) + 1)} }) :
         lo \in {cardbus_get(m, get_register16(m.regs, cpu_registers16.SP))} })

RETURN(m) == POP(m, cpu_registers16.PC)

RETURN_ON(m, cc) == IF resolve_flag_cond(m, cc) THEN RETURN(m) ELSE m

JMP(m) ==
  Only({ [f.m EXCEPT !.regs = set_register16(@, cpu_registers16.PC, f.val)] :
         f \in {fetch2(m)} })

\* a conditional jump that leaves its operand bytes unread when not taken
JUMP_ON_keeps_operands(m, cc) == IF resolve_flag_cond(m, cc) THEN JMP(m) ELSE m

JUMP_ON(m, cc) == IF resolve_flag_cond(m, cc) THEN JMP(m) ELSE fetch2(m).m

\* a PUSH that stores the high byte at SP and the low byte at SP + 1
PUSH_high_first(m, pair0) ==
  Only({ cardbus_set(
           cardbus_set(s, get_register16(s.regs, cpu_registers16.SP),
                       get_register16(s.regs, IF pair0 = cpu_registers16.SP
                                                THEN cpu_registers16.AF ELSE pair0) \div 256),
           get_register16(s.regs, cpu_registers16.SP) + 1,
           get_register16(s.regs, IF pair0 = cpu_registers16.SP
                                    THEN cpu_registers16.AF ELSE pair0) % 256) :
         s \in {[m EXCEPT !.regs =
                   set_register16(@, cpu_registers16.SP,
                                  get_register16(@, cpu_registers16.SP) + 65534)]} })

\* cpu::PUSH: the SP encoding selects AF
PUSH(m, pair0) ==
  Only({ cardbus_set(
           cardbus_set(s, get_register16(s.regs, cpu_registers16.SP),
                       get_register16(s.regs, IF pair0 = cpu_registers16.SP
                                                THEN cpu_registers16.AF ELSE pair0) % 256),
           get_register16(s.regs, cpu_registers16.SP) + 1,
           get_register16(s.regs, IF pair0 = cpu_registers16.SP
                                    THEN cpu_registers16.AF ELSE pair0) \div 256) :
         s \in {[m EXCEPT !.regs =
                   set_register16(@, cpu_registers16.SP,
                                  get_register16(@, cpu_registers16.SP) + 65534)]} })

RST(m, n) ==
  [PUSH(m, cpu_registers16.PC) EXCEPT
     !.regs = set_register16(@, cpu_registers16.PC, n * 8)]

CALL(m) ==
  Only({ [PUSH(f.m, cpu_registers16.PC) EXCEPT
            !.regs = set_register16(@, cpu_registers16.PC, f.val)] :
         f \in {fetch2(m)} })

CALL_ON(m, cc) == IF resolve_flag_cond(m, cc) THEN CALL(m) ELSE fetch2(m).m

\* an OUT that writes to the address as memory
OUT_to_memory(m) ==
  Only({ [f.m EXCEPT
            !.W = bus_write(f.m.cds, @, f.val * 256 + f.val,
                            get_register8(f.m.regs, cpu_registers8.A), FALSE).W,
            !.trace = Append(@, <<"write", f.val * 256 + f.val, FALSE>>)] :
         f \in {fetch(m)} })

\* u16 port = fetch(); port |= (port << 8); cardbus.write(port, A, true)
OUT(m) ==
  Only({ [f.m EXCEPT
            !.W = bus_write(f.m.cds, @, f.val * 256 + f.val,
                            get_register8(f.m.regs, cpu_registers8.A), TRUE).W,
            !.trace = Append(@, <<"write", f.val * 256 + f.val, TRUE>>)] :
         f \in {fetch(m)} })

\* u16 port = fetch(); port |= (port << 8); A(cardbus.read(port, true))
IN_(m) ==
  Only({ Only({ [f.m EXCEPT !.W = r.W,
                            !.trace = Append(@, <<"read", f.val * 256 + f.val, TRUE>>),
                            !.regs = set_register8(@, cpu_registers8.A, r.val)] :
                r \in {bus_read(f.m.cds, f.m.W, f.val * 256 + f.val, TRUE)} }) :
         f \in {fetch(m)} })

XTHL(m) ==
  Only({ Only({ cardbus_set(
                  cardbus_set(
                    [hi.m EXCEPT !.regs = set_register16(@, cpu_registers16.HL,
                                                         hi.val * 256 + lo.val)],
                    get_register16(m.regs, cpu_registers16.SP),
                    get_register16(m.regs, cpu_registers16.HL) % 256),
                  get_register16(m.regs, cpu_registers16.SP) + 1,
                  get_register16(m.regs, cpu_registers16.HL) \div 256) :
                hi \in {cardbus_get(lo.m, get_register16(m.regs, cpu_registers16.SP) + 1)} }) :
         lo \in {cardbus_get(m, get_register16(m.regs, cpu_registers16.SP))} })

PCHL(m) ==
  [m EXCEPT !.regs = set_register16(@, cpu_registers16.PC,
                                    get_register16(@, cpu_registers16.HL))]

XCHG(m) ==
  LET de == get_register16(m.regs, cpu_registers16.DE)
      d == set_register16(m.regs, cpu_registers16.DE,
                          get_register16(m.regs, cpu_registers16.HL))
  IN [m EXCEPT !.regs = set_register16(d, cpu_registers16.HL, de)]

DI(m) == [m EXCEPT !.cpu.interrupts_enabled = FALSE]

SPHL(m) ==
  [m EXCEPT !.regs = set_register16(@, cpu_registers16.SP,
                                    get_register16(@, cpu_registers16.HL))]

EI(m) == [m EXCEPT !.cpu.interrupts_enabled = TRUE]

(***************************************************************************)
(* CPU API                                                                 *)
(***************************************************************************)
\* cpu::execute(u8 opcode): the decode switch.  m.ops records the opcode
\* decoded (the _trace<n>(opcode) / _trace_error(opcode) of every case).
execute(m0, opcode) ==
  Only({
         LET pair_sel == ((opcode \div 16) % 4) + 1
             dst_sel == cpu_reg8_decode((opcode \div 8) % 8)
             src_sel == cpu_reg8_decode(opcode % 8)
             ccc == (opcode \div 8) % 8
         IN CASE opcode = 0 -> NOP(m)
              [] opcode \in {1, 17, 33, 49} -> LXI(m, pair_sel)
              [] opcode \in {2, 18} -> STAX(m, pair_sel)
              [] opcode \in {3, 19, 35, 51} -> INX(m, pair_sel)
              [] opcode < 64 /\ opcode % 8 = 4 -> INR(m, dst_sel)
              [] opcode < 64 /\ opcode % 8 = 5 -> DCR(m, dst_sel)
              [] opcode < 64 /\ opcode % 8 = 6 -> MVI(m, dst_sel)
              [] opcode \in {9, 25, 41, 57} -> DAD(m, pair_sel)
              [] opcode \in {10, 26} -> LDAX(m, pair_sel)
              [] opcode \in {11, 27, 43, 59} -> DCX(m, pair_sel)
              [] opcode = 7 -> RLC(m)
              [] opcode = 15 -> RRC(m)
              [] opcode = 23 -> RAL(m)
              [] opcode = 31 -> RAR(m)
              [] opcode = 34 -> SHLD(m)
              [] opcode = 39 -> DAA(m)
              [] opcode = 42 -> LHLD(m)
              [] opcode = 47 -> CMA(m)
              [] opcode = 50 -> STA(m)
              [] opcode = 55 -> STC(m)
              [] opcode = 58 -> LDA(m)
              [] opcode = 63 -> CMC(m)
              [] opcode >= 64 /\ opcode < 128 /\ opcode # 118 -> MOV(m, dst_sel, src_sel)
              [] opcode = 118 -> HLT(m)
              [] opcode >= 128 /\ opcode < 192 -> ALU(m, src_sel, ccc)
              [] opcode >= 192 /\ opcode % 8 = 0 -> RETURN_ON(m, ccc)
              [] opcode \in {193, 209, 225, 241} -> POP(m, pair_sel)
              [] opcode >= 192 /\ opcode % 8 = 2 -> JUMP_ON(m, ccc)
              [] opcode = 195 -> JMP(m)
              [] opcode >= 192 /\ opcode % 8 = 4 -> CALL_ON(m, ccc)
              [] opcode \in {197, 213, 229, 245} -> PUSH(m, pair_sel)
              [] opcode >= 192 /\ opcode % 8 = 6 -> ALU_IMM(m, ccc)
              [] opcode >= 192 /\ opcode % 8 = 7 -> RST(m, ccc)
              [] opcode = 201 -> RETURN(m)
              [] opcode = 205 -> CALL(m)
              [] opcode = 211 -> OUT(m)
              [] opcode = 219 -> IN_(m)
              [] opcode = 227 -> XTHL(m)
              [] opcode = 233 -> PCHL(m)
              [] opcode = 235 -> XCHG(m)
              [] opcode = 243 -> DI(m)
              [] opcode = 249 -> SPHL(m)
              [] opcode = 251 -> EI(m)
              [] OTHER -> trace_error(m) :
         m \in {[m0 EXCEPT !.ops = Append(@, opcode)]} })

\* cpu::execute(opcode, operand1, operand2)
execute_ext(m, opcode, operand1, operand2) ==
  Only({ IF e.err # "none" THEN e ELSE set_fetch_ext(e, FALSE) :
         e \in {execute(set_fetch_ext([m EXCEPT !.cpu.ext_op = <<operand1, operand2>>],
                                      TRUE),
                        opcode)} })

\* the addresses at which the bus reads '$' as memory
DollarAdrs(m) ==
  {a \in UNION { CardPool[m.cds[i]].start_adr ..
                   (CardPool[m.cds[i]].start_adr + CardPool[m.cds[i]].capacity - 1) :
                 i \in {j \in Slots : m.cds[j] # NO_CARD /\ ~is_io(m.cds[j])} } :
     a < bus_size /\ bus_read(m.cds, m.W, a, FALSE).val = 36}

\* the scan below ending at the top of the address space
RECURSIVE bdos_print_string_to_top(_, _)
bdos_print_string_to_top(m, de) ==
  Only({ IF c.val = 36 \/ de = bus_size - 1 THEN c.m
         ELSE Only({ bdos_print_string_to_top([p.m EXCEPT !.printed = Append(@, p.val)],
                                              de + 1) :
                     p \in {cardbus_get(c.m, de)} }) :
         c \in {cardbus_get(m, de)} })

\* for (u16 de = DE; cardbus[de] != '$'; ++de) printer << cardbus[de];
RECURSIVE bdos_print_string(_, _)
bdos_print_string(m, de) ==
  Only({ IF c.val = 36 THEN c.m
         ELSE Only({ bdos_print_string([p.m EXCEPT !.printed = Append(@, p.val)],
                                       U16(de + 1)) :
                     p \in {cardbus_get(c.m, de)} }) :
         c \in {cardbus_get(m, de)} })

\* handle_bdos with function 2 printing D instead of E
handle_bdos_prints_D(m) ==
  LET pc == get_register16(m.regs, cpu_registers16.PC)
      c == get_register8(m.regs, cpu_registers8.C)
  IN IF pc = 0
       THEN IF m.cpu.just_booted
              THEN [m EXCEPT !.cpu.just_booted = FALSE]
              ELSE cardbus_set(m, 0, 118)
     ELSE IF pc = 5
       THEN IF c = 2
              THEN RETURN(fetch([m EXCEPT !.printed =
                            Append(@, get_register8(m.regs, cpu_registers8.D))]).m)
            ELSE IF c = 9
              THEN IF DollarAdrs(m) = {}
                     THEN [m EXCEPT !.err = "no_return"]
                     ELSE RETURN(fetch(bdos_print_string(m,
                            get_register16(m.regs, cpu_registers16.DE))).m)
            ELSE [m EXCEPT !.err = "runtime_error"]
     ELSE m

\* cpu::handle_bdos
handle_bdos(m) ==
  LET pc == get_register16(m.regs, cpu_registers16.PC)
      c == get_register8(m.regs, cpu_registers8.C)
  IN IF pc = 0
       THEN IF m.cpu.just_booted
              THEN [m EXCEPT !.cpu.just_booted = FALSE]
              ELSE cardbus_set(m, 0, 118)
     ELSE IF pc = 5
       THEN IF c = 2
              THEN RETURN(fetch([m EXCEPT !.printed =
                            Append(@, get_register8(m.regs, cpu_registers8.E))]).m)
            ELSE IF c = 9
              THEN IF DollarAdrs(m) = {}
                     THEN [m EXCEPT !.err = "no_return"]
                     ELSE RETURN(fetch(bdos_print_string(m,
                            get_register16(m.regs, cpu_registers16.DE))).m)
            ELSE [m EXCEPT !.err = "runtime_error"]
     ELSE m

\* a step that runs the instruction at PC whether or not the CPU is halted
RECURSIVE step_while_halted(_, _)
step_while_halted(m, steps) ==
  IF steps = 0 THEN m
  ELSE Only({ IF b.err # "none" THEN b
              ELSE Only({ Only({ IF e.err # "none" THEN e
                                 ELSE step_while_halted(e, steps - 1) :
                                 e \in {execute(f.m, f.val)} }) :
                          f \in {fetch(b)} }) :
              b \in {IF m.cpu.do_handle_bdos THEN handle_bdos(m) ELSE m} })

\* cpu::step(steps)
RECURSIVE step(_, _)
step(m, steps) ==
  IF steps = 0 THEN m
  ELSE IF m.cpu.halted THEN m
  ELSE Only({ IF b.err # "none" THEN b
              ELSE Only({ Only({ IF e.err # "none" THEN e ELSE step(e, steps - 1) :
                                 e \in {execute(f.m, f.val)} }) :
                          f \in {fetch(b)} }) :
              b \in {IF m.cpu.do_handle_bdos THEN handle_bdos(m) ELSE m} })

\* an interrupt that leaves interrupts_enabled as it finds it
interrupt_keeps_enabled(m, inst) ==
  IF ~m.cpu.interrupts_enabled THEN m
  ELSE execute_ext(PUSH(m, cpu_registers16.PC), inst[1], inst[2], inst[3])

\* cpu::interrupt(inst)
interrupt(m, inst) ==
  IF ~m.cpu.interrupts_enabled THEN m
  ELSE execute_ext(PUSH([m EXCEPT !.cpu.interrupts_enabled = FALSE],
                        cpu_registers16.PC),
                   inst[1], inst[2], inst[3])

\* cpu::load_state: state = new_state
load_state(m, new_state) == [m EXCEPT !.regs = new_state]

\* cpu::clear: state = cpu_state(); just_booted = true; halted = false
clear(m) ==
  [m EXCEPT !.regs = cpu_state_init, !.cpu.just_booted = TRUE, !.cpu.halted = FALSE]

\* cpu::do_pseudo_bdos
do_pseudo_bdos(m, should) == [m EXCEPT !.cpu.do_handle_bdos = should]

\* the write_force loop of cpu::load, from byte i of the image on
RECURSIVE load_from(_, _, _, _)
load_from(m, bytes, offset, i) ==
  IF i > Len(bytes) THEN m
  ELSE load_from([m EXCEPT !.W = bus_write_force(m.cds, @, U16(offset + i - 1),
                                                 bytes[i], FALSE).W,
                           !.trace = Append(@, <<"write_force", U16(offset + i - 1), FALSE>>)],
                 bytes, offset, i + 1)

\* cpu::load(begin, end, offset, auto_reset_vector); cardbus.size() - offset
\* is unsigned, so an offset beyond the bus passes the test
load(m, bytes, offset, auto_reset_vector) ==
  IF offset <= bus_size /\ Len(bytes) > bus_size - offset
    THEN [m EXCEPT !.err = "out_of_range"]
  ELSE IF ~auto_reset_vector THEN load_from(m, bytes, offset, 1)
  ELSE IF offset <= 2 THEN [load_from(m, bytes, offset, 1) EXCEPT !.err = "out_of_range"]
  ELSE cardbus_set(cardbus_set(cardbus_set(load_from(m, bytes, offset, 1), 0, 195),
                               1, offset % 256),
                   2, offset \div 256)


(***************************************************************************)
(* Inputs of the bus API calls                                             *)
(***************************************************************************)
\* the first and the last slot, the index one past the end, and the next
SlotChoices == {0, MAX_BUS_CARDS - 1, MAX_BUS_CARDS, MAX_BUS_CARDS + 1}
ValidSlotChoices == {s \in SlotChoices : s < MAX_BUS_CARDS}
\* <<address, ior/iow>>: 0x0010 as memory (rom and ram) and as port (ser
\* control/status), 0x0012 (ram only), 0x0020 (no card)
AccessChoices == { <<16, FALSE>>, <<18, FALSE>>, <<16, TRUE>>, <<32, FALSE>> }
ByteChoices == {3, 150}
\* the cards the slot specification plugs in
PlugCards == {"rom", "ram", "ram2", "nil", "ser", "ser2"}
\* the cards the read/write specification plugs in
IoCards == {"rom", "ram", "ser"}

NoOp == [op |-> "none", card |-> NO_CARD, slot |-> 0, allow |-> FALSE,
         adr |-> 0, byte |-> 0, io |-> FALSE,
         result |-> "ok", value |-> 0, deliv |-> <<>>,
         reg |-> 0, arg |-> 0, trace |-> <<>>, printed |-> <<>>, ops |-> <<>>,
         pre |-> FALSE, inst |-> <<>>]

World == [data |-> data, ser |-> ser]

\* card: bool irq_raised = false
card_init_irq == [c \in CardIds |-> FALSE]

InitCards ==
  /\ data = [c \in DataCardIds |-> data_card_init(c)]
  /\ ser = [c \in SerialCardIds |-> serial_card_init]
  /\ irq_raised = card_init_irq

\* bus::bus
InitBus ==
  /\ cards = [i \in Slots |-> NO_CARD]
  /\ ignore_conflicts = [i \in Slots |-> FALSE]
  /\ InitCards
  /\ state = cpu_state_init
  /\ cpu = cpu_init
  /\ calls = 0
  /\ lastOp = NoOp

\* a call bus.insert(card, slot, allow)
InsertCall(card, slot, allow, pb) ==
  LET r == insert(cards, ignore_conflicts, card, slot, allow, pb)
  IN /\ cards' = r.cards
     /\ ignore_conflicts' = r.ign
     /\ lastOp' = [NoOp EXCEPT !.op = "insert", !.card = card, !.slot = slot,
                               !.allow = allow, !.result = r.result]
     /\ UNCHANGED <<data, ser, irq_raised, state, cpu, calls>>

\* a call bus.remove(slot)
RemoveCall(slot) ==
  LET r == remove(cards, ignore_conflicts, slot)
  IN /\ cards' = r.cards
     /\ ignore_conflicts' = r.ign
     /\ lastOp' = [NoOp EXCEPT !.op = "remove", !.slot = slot, !.result = r.result,
                               !.card = IF slot \in Slots THEN cards[slot] ELSE NO_CARD]
     /\ UNCHANGED <<data, ser, irq_raised, state, cpu, calls>>

(***************************************************************************)
(* SpecBus: a client plugs cards in and out, with every kind of argument   *)
(***************************************************************************)
BusInsert ==
  \E card \in PlugCards \cup {NO_CARD}, slot \in SlotChoices,
     allow \in BOOLEAN, pb \in PointerBytes :
    InsertCall(card, slot, allow, pb)

BusRemove == \E slot \in SlotChoices : RemoveCall(slot)

NextBus == BusInsert \/ BusRemove

SpecBus == InitBus /\ [][NextBus]_vars

(***************************************************************************)
(* SpecBusIO: a client plugs cards into valid slots and reads and writes   *)
(***************************************************************************)
IoInsert ==
  \E card \in IoCards, slot \in ValidSlotChoices, allow \in BOOLEAN :
    InsertCall(card, slot, allow, {})

IoRemove == \E slot \in ValidSlotChoices : RemoveCall(slot)

BusRead ==
  \E acc \in AccessChoices :
    LET r == bus_read(cards, World, acc[1], acc[2])
    IN /\ data' = r.W.data
       /\ ser' = r.W.ser
       /\ lastOp' = [NoOp EXCEPT !.op = "read", !.adr = acc[1], !.io = acc[2],
                                 !.value = r.val, !.deliv = r.deliv]
       /\ UNCHANGED <<cards, ignore_conflicts, irq_raised, state, cpu, calls>>

BusWrite ==
  \E acc \in AccessChoices, byte \in ByteChoices :
    LET r == bus_write(cards, World, acc[1], byte, acc[2])
    IN /\ data' = r.W.data
       /\ ser' = r.W.ser
       /\ lastOp' = [NoOp EXCEPT !.op = "write", !.adr = acc[1], !.byte = byte,
                                 !.io = acc[2], !.deliv = r.deliv]
       /\ UNCHANGED <<cards, ignore_conflicts, irq_raised, state, cpu, calls>>

NextBusIO == IoInsert \/ IoRemove \/ BusRead \/ BusWrite

SpecBusIO == InitBus /\ [][NextBusIO]_vars

(***************************************************************************)
(* SpecCards: a front end plugs data and serial cards, reads and writes    *)
(* them and clears the bus, as ux does on a reload                         *)
(***************************************************************************)
\* serial_card::clear: reset()
serial_card_clear(W, c) == [W EXCEPT !.ser[c] = serial_reset(@)]

\* bus::clear: every plugged card's clear()
bus_clear(cds, W) ==
  [W EXCEPT
     !.data = [c \in DOMAIN @ |->
                 IF \E i \in Slots : cds[i] = c
                   THEN data_card_clear(W, c).data[c] ELSE @[c]],
     !.ser = [c \in DOMAIN @ |->
                IF \E i \in Slots : cds[i] = c
                  THEN serial_card_clear(W, c).ser[c] ELSE @[c]]]

\* rom_card(0x000E, 4, 0x5A), ram_card(0x0010, 4, 0x00), ram_card(0x0020, 2)
\* and serial_card<0x10>
ClearCards == {"rom", "ram", "ram2", "ser"}
ClearSlots == {0, 1, 2}
\* 0x0010 as memory (rom, ram) and as port (ser), 0x0012 (ram), 0x0020 and
\* 0x0021 (ram2)
ClearAccess == { <<16, FALSE>>, <<18, FALSE>>, <<16, TRUE>>, <<32, FALSE>>, <<33, FALSE>> }
\* what reading past the end of a cleared vector can yield: the stale byte
\* values of the cards, zero, 0xFF
UbBytes == {0, 90, 150, BAD_U8}

\* cardbus.insert(card, slot)
CardsInsert ==
  \E card \in ClearCards, slot \in ClearSlots :
    InsertCall(card, slot, FALSE, {})

\* cardbus.read(adr, ior)
CardsRead ==
  \E acc \in ClearAccess, ub \in UbBytes :
    \E r \in { bus_read(cards, [data |-> data, ser |-> ser, oob |-> ub],
                         acc[1], acc[2]) } :
      /\ data' = r.W.data
      /\ ser' = r.W.ser
      /\ lastOp' = [NoOp EXCEPT !.op = "read", !.adr = acc[1], !.io = acc[2],
                                !.value = r.val, !.deliv = r.deliv]
      /\ UNCHANGED <<cards, ignore_conflicts, irq_raised, state, cpu, calls>>

\* cardbus.write(adr, byte), followed while no vector has been cleared
CardsWrite ==
  \E acc \in ClearAccess :
    \E r \in { bus_write(cards, World, acc[1], 150, acc[2]) } :
      /\ calls = 0
      /\ data' = r.W.data
      /\ ser' = r.W.ser
      /\ lastOp' = [NoOp EXCEPT !.op = "write", !.adr = acc[1], !.byte = 150,
                                !.io = acc[2], !.deliv = r.deliv]
      /\ UNCHANGED <<cards, ignore_conflicts, irq_raised, state, cpu, calls>>

\* cardbus.clear()
CardsClear ==
  \E W \in { bus_clear(cards, World) } :
    /\ data' = W.data
    /\ ser' = W.ser
    /\ calls' = 1
    /\ lastOp' = [NoOp EXCEPT !.op = "bus_clear"]
    /\ UNCHANGED <<cards, ignore_conflicts, irq_raised, state, cpu>>

NextCards == CardsInsert \/ CardsRead \/ CardsWrite \/ CardsClear

SpecCards == InitBus /\ [][NextCards]_vars

(***************************************************************************)
(* SpecSerial: a program drives the serial card at ports 0x10 and 0x11     *)
(* while bytes arrive on its endpoint                                      *)
(***************************************************************************)
\* the card operations and endpoint arrivals followed
MaxSerialOps == 4
\* status/control port, data port, and a mirror of the data port
SerialPorts == {16, 17, 4113}
\* master reset, master reset with the IRQ bit, the divide selections
\* /1, /16, /64 with 8N1 or 7E2, RTS low
ControlBytes == {3, 131, 0, 21, 22, 149, 64}
\* 'A', 'B'
DataBytes == {65, 66}

\* cardbus.insert(new serial_card<0x0010>, 1)
SerialPlane ==
  insert([i \in Slots |-> NO_CARD], [i \in Slots |-> FALSE], "ser", 1, FALSE, {})

\* bus with serial_card<0x10> in slot 1
InitSerial ==
  /\ cards = SerialPlane.cards
  /\ ignore_conflicts = SerialPlane.ign
  /\ InitCards
  /\ state = cpu_state_init
  /\ cpu = cpu_init
  /\ calls = 0
  /\ lastOp = NoOp

\* the terminal sends a byte: pty::poll() turns true, pty::getch() yields it
SerialType ==
  \E byte \in DataBytes :
    /\ calls < MaxSerialOps
    /\ calls' = calls + 1
    /\ ser' = [ser EXCEPT !["ser"].rxq = Append(@, byte)]
    /\ lastOp' = [NoOp EXCEPT !.op = "type", !.byte = byte]
    /\ UNCHANGED <<cards, ignore_conflicts, data, irq_raised, state, cpu>>

\* cardbus.read(port, true)
SerialRead ==
  \E port \in SerialPorts :
    \E r \in { bus_read(cards, World, port, TRUE) } :
      /\ calls < MaxSerialOps
      /\ calls' = calls + 1
      /\ data' = r.W.data
      /\ ser' = r.W.ser
      /\ lastOp' = [NoOp EXCEPT !.op = "read", !.adr = port, !.io = TRUE,
                                !.value = r.val, !.deliv = r.deliv]
      /\ UNCHANGED <<cards, ignore_conflicts, irq_raised, state, cpu>>

\* cardbus.write(port, byte, true)
SerialWrite ==
  \E port \in SerialPorts :
    \E byte \in IF port = 16 THEN ControlBytes ELSE DataBytes :
      \E r \in { bus_write(cards, World, port, byte, TRUE) } :
        /\ calls < MaxSerialOps
        /\ calls' = calls + 1
        /\ data' = r.W.data
        /\ ser' = r.W.ser
        /\ lastOp' = [NoOp EXCEPT !.op = "write", !.adr = port, !.byte = byte,
                                  !.io = TRUE, !.deliv = r.deliv]
        /\ UNCHANGED <<cards, ignore_conflicts, irq_raised, state, cpu>>

\* cardbus.clear()
SerialClear ==
  \E W \in { bus_clear(cards, World) } :
    /\ calls < MaxSerialOps
    /\ calls' = calls + 1
    /\ data' = W.data
    /\ ser' = W.ser
    /\ lastOp' = [NoOp EXCEPT !.op = "bus_clear"]
    /\ UNCHANGED <<cards, ignore_conflicts, irq_raised, state, cpu>>

NextSerial == SerialType \/ SerialRead \/ SerialWrite \/ SerialClear

SpecSerial == InitSerial /\ [][NextSerial]_vars

(***************************************************************************)
(* SpecIrq: a client plugs cards in and out, raises and clears their IRQ   *)
(* and asks the bus for the pending interrupt                              *)
(***************************************************************************)
\* a RAM card, a second RAM card and a serial card
IrqCards == {"ram", "ram2", "ser"}

IrqInsert ==
  \E card \in IrqCards, slot \in ValidSlotChoices, allow \in BOOLEAN :
    InsertCall(card, slot, allow, {})

IrqRemove == \E slot \in ValidSlotChoices : RemoveCall(slot)

\* card->raise_irq(value), on a card that is plugged in or not
IrqRaise ==
  \E card \in IrqCards, value \in BOOLEAN :
    /\ irq_raised' = raise_irq(irq_raised, card, value)
    /\ lastOp' = [NoOp EXCEPT !.op = "raise_irq", !.card = card]
    /\ UNCHANGED <<cards, ignore_conflicts, data, ser, state, cpu, calls>>

\* bus.is_irq()
IrqIsIrq ==
  /\ lastOp' = [NoOp EXCEPT !.op = "is_irq",
                            !.result = IF bus_is_irq(cards, irq_raised)
                                         THEN "true" ELSE "false"]
  /\ UNCHANGED <<cards, ignore_conflicts, data, ser, irq_raised, state, cpu, calls>>

\* bus.get_irq()
IrqGetIrq ==
  /\ lastOp' = [NoOp EXCEPT !.op = "get_irq",
                            !.result = bus_get_irq(cards, irq_raised).result,
                            !.inst = bus_get_irq(cards, irq_raised).inst,
                            !.deliv = bus_get_irq(cards, irq_raised).deliv]
  /\ UNCHANGED <<cards, ignore_conflicts, data, ser, irq_raised, state, cpu, calls>>

NextIrq == IrqInsert \/ IrqRemove \/ IrqRaise \/ IrqIsIrq \/ IrqGetIrq

SpecIrq == InitBus /\ [][NextIrq]_vars

(***************************************************************************)
(* SpecRegs: a client drives a cpu_state object through its setters        *)
(***************************************************************************)
Reg8Choices == {cpu_registers8.A, cpu_registers8.F}
\* 0x00, 0x12, 0xFE, 0xFF
Value8Choices == {0, 18, 254, 255}
\* 0x0000, 0x12D6, 0xFFFF
Value16Choices == {0, 4822, 65535}
FlagChoices == {cpu_flags[f] : f \in DOMAIN cpu_flags}
\* zero, negative, odd parity, even parity
ZSPChoices == {0, 128, 1, 3}

\* cpu_state::cpu_state, beside a bus without cards
InitRegs ==
  /\ cards = [i \in Slots |-> NO_CARD]
  /\ ignore_conflicts = [i \in Slots |-> FALSE]
  /\ InitCards
  /\ state = cpu_state_init
  /\ cpu = cpu_init
  /\ calls = 0
  /\ lastOp = NoOp

RegsSet8 ==
  \E reg \in Reg8Choices, value \in Value8Choices :
    /\ state' = set_register8(state, reg, value)
    /\ lastOp' = [NoOp EXCEPT !.op = "set_register8", !.reg = reg, !.arg = value]
    /\ UNCHANGED <<cards, ignore_conflicts, data, ser, irq_raised, cpu, calls>>

RegsSet16 ==
  \E value \in Value16Choices :
    /\ state' = set_register16(state, cpu_registers16.AF, value)
    /\ lastOp' = [NoOp EXCEPT !.op = "set_register16", !.reg = cpu_registers16.AF,
                              !.arg = value]
    /\ UNCHANGED <<cards, ignore_conflicts, data, ser, irq_raised, cpu, calls>>

RegsInc8 ==
  /\ state' = inc_register8(state, cpu_registers8.F)
  /\ lastOp' = [NoOp EXCEPT !.op = "inc_register8", !.reg = cpu_registers8.F]
  /\ UNCHANGED <<cards, ignore_conflicts, data, ser, irq_raised, cpu, calls>>

RegsGetThenInc8 ==
  LET r == get_then_inc_register8(state, cpu_registers8.F)
  IN /\ state' = r.regs
     /\ lastOp' = [NoOp EXCEPT !.op = "get_then_inc_register8",
                               !.reg = cpu_registers8.F, !.value = r.val]
     /\ UNCHANGED <<cards, ignore_conflicts, data, ser, irq_raised, cpu, calls>>

RegsSetFlag ==
  \E flag \in FlagChoices :
    /\ state' = set_flag(state, flag)
    /\ lastOp' = [NoOp EXCEPT !.op = "set_flag", !.arg = flag]
    /\ UNCHANGED <<cards, ignore_conflicts, data, ser, irq_raised, cpu, calls>>

RegsUnsetFlag ==
  \E flag \in FlagChoices :
    /\ state' = unset_flag(state, flag)
    /\ lastOp' = [NoOp EXCEPT !.op = "unset_flag", !.arg = flag]
    /\ UNCHANGED <<cards, ignore_conflicts, data, ser, irq_raised, cpu, calls>>

RegsSetZSP ==
  \E is \in ZSPChoices :
    /\ state' = set_Z_S_P_flags(state, is)
    /\ lastOp' = [NoOp EXCEPT !.op = "set_Z_S_P_flags", !.arg = is]
    /\ UNCHANGED <<cards, ignore_conflicts, data, ser, irq_raised, cpu, calls>>

NextRegs ==
  \/ RegsSet8 \/ RegsSet16 \/ RegsInc8 \/ RegsGetThenInc8
  \/ RegsSetFlag \/ RegsUnsetFlag \/ RegsSetZSP

SpecRegs == InitRegs /\ [][NextRegs]_vars

(***************************************************************************)
(* SpecPairs: the register file written through its 8- and 16-bit setters  *)
(***************************************************************************)

\* setter calls followed
MaxSets == 3
\* the halves A, F, B, C, D, E, H, L and those of SP and PC
PairHalves == 0 .. 11
\* 0x12, 0xFE
HalfValues == {18, 254}
\* 0xABCD
PairValues == {43981}

\* state.set_register8(reg, value)
PairsSet8 ==
  \E reg \in PairHalves, value \in HalfValues :
    /\ calls < MaxSets
    /\ calls' = calls + 1
    /\ state' = set_register8(state, reg, value)
    /\ lastOp' = [NoOp EXCEPT !.op = "set_register8", !.reg = reg, !.arg = value]
    /\ UNCHANGED <<cards, ignore_conflicts, data, ser, irq_raised, cpu>>

\* state.set_register16(pair, value)
PairsSet16 ==
  \E pair \in 0 .. 5, value \in PairValues :
    /\ calls < MaxSets
    /\ calls' = calls + 1
    /\ state' = set_register16(state, pair, value)
    /\ lastOp' = [NoOp EXCEPT !.op = "set_register16", !.reg = pair, !.arg = value]
    /\ UNCHANGED <<cards, ignore_conflicts, data, ser, irq_raised, cpu>>

NextPairs == PairsSet8 \/ PairsSet16

SpecPairs == InitRegs /\ [][NextPairs]_vars

(***************************************************************************)
(* SpecCpu: a front-end drives a cpu over a backplane with a RAM card at   *)
(* 0x0000 and a serial card at port 0x10, a program image loaded           *)
(***************************************************************************)
\* the calls other than step() a run makes at most
MaxCalls == 3

\* 0000 LXI SP,0030  0003 MVI A,42  0005 JMP 0010  0008 EI  0009 RET
\* 0010 OUT 11  0012 PUSH PSW  0013 POP B  0014 ADD B  0015 STA 002F  0018 HLT
ProgramA ==
  << 49, 48, 0,  62, 66,  195, 16, 0,  251, 201,  118, 118, 118, 118, 118, 118,
     211, 17,  245,  193,  128,  50, 47, 0,  118 >>

\* 0000 JMP 0010  0005 HLT  0008 EI  0009 RET
\* 0010 LXI SP,0030  0013 MVI C,02  0015 MVI E,41  0017 CALL 0005  001A JMP 0000
ProgramB ==
  << 195, 16, 0,  118, 118,  118,  118, 118,  251, 201,  118, 118, 118, 118, 118, 118,
     49, 48, 0,  14, 2,  30, 65,  205, 5, 0,  195, 0, 0 >>

Programs == {ProgramA, ProgramB}

\* HLT; MVI A,07
ExecuteChoices == { <<118, 0, 0>>, <<62, 7, 0>> }
\* RST 1; CALL 0008; HLT; EI
InterruptChoices == { <<207, 0, 0>>, <<205, 8, 0>>, <<118, 0, 0>>, <<251, 0, 0>> }
StepsChoices == {1, 2}

\* bus.insert(&mem, 0); bus.insert(&ser, 1)
Backplane ==
  Only({ insert(a.cards, a.ign, "ser", 1, FALSE, {}) :
         a \in {insert([i \in Slots |-> NO_CARD], [i \in Slots |-> FALSE],
                       "mem", 0, FALSE, {})} })

\* cpu<bus&> processor(cardbus); processor.load(image.begin(), image.end())
InitCpu ==
  \E image \in Programs :
    \E m \in { load(Machine(Backplane.cards,
                            [data |-> [c \in DataCardIds |-> data_card_init(c)],
                             ser |-> [c \in SerialCardIds |-> serial_card_init]],
                            cpu_state_init, cpu_init),
                    image, 0, FALSE) } :
      /\ cards = Backplane.cards
      /\ ignore_conflicts = Backplane.ign
      /\ data = m.W.data
      /\ ser = m.W.ser
      /\ irq_raised = card_init_irq
      /\ state = m.regs
      /\ cpu = m.cpu
      /\ calls = 0
      /\ lastOp = NoOp

\* the machine of the current state
Now == Machine(cards, World, state, cpu)

\* the state after a CPU API call returned (or threw)
CpuCall(op, arg, m) ==
  /\ m.err # "no_return"
  /\ data' = m.W.data
  /\ ser' = m.W.ser
  /\ state' = m.regs
  /\ cpu' = m.cpu
  /\ lastOp' = [NoOp EXCEPT !.op = op, !.arg = arg, !.result = m.err,
                            !.trace = m.trace, !.printed = m.printed,
                            !.ops = m.ops,
                            !.pre = cpu.halted]
  /\ UNCHANGED <<cards, ignore_conflicts, irq_raised>>

CpuStep ==
  \E steps \in StepsChoices :
    /\ CpuCall("step", steps, step(Now, steps))
    /\ UNCHANGED calls

CpuExecute ==
  \E inst \in ExecuteChoices :
    /\ calls < MaxCalls
    /\ calls' = calls + 1
    /\ CpuCall("execute", inst, execute_ext(Now, inst[1], inst[2], inst[3]))

CpuInterrupt ==
  \E inst \in InterruptChoices :
    /\ calls < MaxCalls
    /\ calls' = calls + 1
    /\ CpuCall("interrupt", inst, interrupt(Now, inst))

CpuClear ==
  /\ calls < MaxCalls
  /\ calls' = calls + 1
  /\ CpuCall("clear", 0, clear(Now))

CpuPseudoBdos ==
  \E should \in BOOLEAN :
    /\ calls < MaxCalls
    /\ calls' = calls + 1
    /\ CpuCall("do_pseudo_bdos", should, do_pseudo_bdos(Now, should))

NextCpu == CpuStep \/ CpuExecute \/ CpuInterrupt \/ CpuClear \/ CpuPseudoBdos

SpecCpu == InitCpu /\ [][NextCpu]_vars

(***************************************************************************)
(* SpecBoot: a front-end loads program images into a RAM-only or a         *)
(* ROM-at-zero backplane, with or without pseudo-BDOS, and steps the CPU   *)
(***************************************************************************)
\* the load() calls a run makes at most
MaxLoads == 2

\* bus.insert(&mem, 0)
PlaneRam ==
  insert([i \in Slots |-> NO_CARD], [i \in Slots |-> FALSE], "mem", 0, FALSE, {})
\* bus.insert(&rom0, 0); bus.insert(&ram, 1)
PlaneRom ==
  Only({ insert(a.cards, a.ign, "ram", 1, FALSE, {}) :
         a \in {insert([i \in Slots |-> NO_CARD], [i \in Slots |-> FALSE],
                       "rom0", 0, FALSE, {})} })
BootPlanes == {PlaneRam, PlaneRom}

\* JMP 0000; NOP, HLT
BootImages == { <<195, 0, 0>>, <<0, 118>> }
BootOffsets == {2, 3, 16, 65535}

\* cpu<bus&> processor(cardbus); processor.do_pseudo_bdos(should)
InitBoot ==
  \E plane \in BootPlanes, should \in BOOLEAN :
    /\ cards = plane.cards
    /\ ignore_conflicts = plane.ign
    /\ InitCards
    /\ state = cpu_state_init
    /\ cpu = do_pseudo_bdos(Machine(plane.cards, World, cpu_state_init, cpu_init),
                            should).cpu
    /\ calls = 0
    /\ lastOp = NoOp

\* processor.load(image.begin(), image.end(), offset, auto_reset_vector)
BootLoad ==
  \E image \in BootImages, offset \in BootOffsets, auto \in BOOLEAN :
    \E m \in { load(Now, image, offset, auto) } :
      /\ calls < MaxLoads
      /\ calls' = calls + 1
      /\ data' = m.W.data
      /\ ser' = m.W.ser
      /\ state' = m.regs
      /\ cpu' = m.cpu
      /\ lastOp' = [NoOp EXCEPT !.op = "load", !.arg = offset, !.allow = auto,
                                !.inst = image, !.result = m.err,
                                !.trace = m.trace]
      /\ UNCHANGED <<cards, ignore_conflicts, irq_raised>>

\* adr is served by a plugged data card
Backed(adr) ==
  \E i \in Slots :
    /\ cards[i] \in DataCardIds
    /\ adr - CardPool[cards[i]].start_adr \in 0 .. (CardPool[cards[i]].capacity - 1)

\* processor.step(), once an image is loaded and for as long as the program
\* counter stays in plugged memory
BootStep ==
  /\ calls > 0
  /\ Backed(get_register16(state, cpu_registers16.PC))
  /\ CpuCall("step", 1, step(Now, 1))
  /\ UNCHANGED calls

NextBoot == BootLoad \/ BootStep

SpecBoot == InitBoot /\ [][NextBoot]_vars

(***************************************************************************)
(* SpecInst: a test bench loads one or two instructions and a memory       *)
(* operand into the RAM card, loads a register file and steps the CPU      *)
(***************************************************************************)
\* a cpu_state with the six pairs given
Regs(af, bc, de, hl, sp, pc) ==
  [i \in 0 .. 5 |-> <<af, bc, de, hl, sp, pc>>[i + 1]]

\* a bench case: the image and where it is loaded, the register file, and
\* the byte stored at 0x0020
Case(image, org, af, bc, de, hl, sp, mb) ==
  [image |-> image, org |-> org, mb |-> mb, bdos |-> FALSE,
   regs |-> Regs(af, bc, de, hl, sp, org)]

\* the flag bytes the CPU itself produces: bit 1 set, bits 3 and 5 clear
FlagBytes == {f \in 0 .. 255 : Bit(f, 1) /\ ~Bit(f, 3) /\ ~Bit(f, 5)}
\* accumulator and operand values of the ALU cases
AluValues == {0, 1, 7, 8, 15, 16, 60, 127, 128, 129, 153, 154, 165, 240, 254, 255}

\* Jcc = 11ccc010, Ccc = 11ccc100
JccOpcodes == {194 + 8 * cc : cc \in 0 .. 7}
CccOpcodes == {196 + 8 * cc : cc \in 0 .. 7}
\* Jcc / Ccc to 0x0010 and to 0x1234, with every flag byte, the stack in
\* RAM (SP = 0x0030) and below address zero (SP = 0x0000)
CondCases ==
  { Case(<<op, t[1], t[2]>>, org, f, 0, 0, 0, sp, 118) :
      op \in JccOpcodes \cup CccOpcodes, t \in {<<16, 0>>, <<52, 18>>},
      org \in {0, 5}, f \in FlagBytes, sp \in {48, 0} }

\* PUSH rp = 11rp0101 followed by POP rp = 11rp0001; the four pairs hold
\* different values; SP in RAM (0x0030, 0x0040) and wrapping (0x0001, 0x0000)
StackCases ==
  { Case(<<197 + 16 * rp, 193 + 16 * rp>>, 0, v, U16(v + 257), U16(v + 514),
         U16(v + 771), sp, 118) :
      rp \in 0 .. 3, v \in {4823, 42242}, sp \in {48, 64, 1, 0} }

\* the opcodes the decode switch has no case for
UndefinedOpcodes == {8, 16, 24, 32, 40, 48, 56, 203, 217, 221, 237, 253}
UndefCases ==
  { Case(<<op>>, org, 2, 0, 0, 0, 48, 118) : op \in UndefinedOpcodes, org \in {0, 5} }

\* SUB/SBB/CMP B, SUB/SBB/CMP M, SUI, SBI, CPI: the operand is in B, at
\* (HL) = 0x0020 and in the byte after the opcode
SubOpcodes == {144, 152, 184, 150, 158, 190, 214, 222, 254}
\* ANA B, ANA M, ANI
AnaOpcodes == {160, 166, 230}
AluCases ==
  { Case(<<op, x>>, 0, 256 * a + f, 256 * x, 0, 32, 48, x) :
      op \in SubOpcodes \cup AnaOpcodes, a \in AluValues, x \in AluValues,
      f \in {2, 3, 18, 19} }

\* INR B, INR M, INR A, DCR B, DCR M, DCR A on every byte value; (HL) is
\* the RAM byte at 0x0020 or the unmapped address 0x0100
IncOpcodes == {4, 52, 60}
DcrOpcodes == {5, 53, 61}
IncCases ==
  { Case(<<op>>, 0, 256 * v + f, 256 * v, 0, hl, 48, v) :
      op \in IncOpcodes \cup DcrOpcodes, v \in 0 .. 255, f \in {2, 3},
      hl \in {32} }
  \cup
  { Case(<<op>>, 0, f, 0, 0, 256, 48, 118) : op \in {52, 53}, f \in {2, 3} }

\* DAA on every accumulator value with every AC and C
DaaCases ==
  { Case(<<39>>, 0, 256 * a + f, 0, 0, 0, 48, 118) :
      a \in 0 .. 255, f \in {2, 3, 18, 19} }

\* RLC, RRC, RAL (followed by RAR) and RAR on every accumulator value, with
\* the other flags clear and set and the other pairs holding values
RotOpcodes == {7, 15, 23, 31}
RotCases ==
  { Case(<<op, 31>>, 0, 256 * a + f, 4386, 13124, 21862, 48, 118) :
      op \in RotOpcodes, a \in 0 .. 255, f \in {2, 3, 214, 215} }

\* MOV r,r' (01dddsss without HLT), MVI r (00ddd110), LXI rp (00rp0001),
\* STAX/LDAX B and D, SHLD, LHLD, STA, LDA, XTHL, PCHL, XCHG, SPHL
DataMoveOpcodes ==
  ((64 .. 127) \ {118}) \cup {6 + 8 * r : r \in 0 .. 7} \cup {1, 17, 33, 49}
  \cup {2, 18, 10, 26, 34, 42, 50, 58, 227, 233, 235, 249}
\* every data move with a 16-bit operand in RAM (0x0020) and unmapped
\* (0x0100), HL in RAM and unmapped, BC and DE pointing into RAM
MoveCases ==
  { Case(<<op, t[1], t[2]>>, 0, 256 * 165 + f, 33, 290, hl, 48, 90) :
      op \in DataMoveOpcodes, t \in {<<32, 0>>, <<0, 1>>},
      f \in {2, 215, 131}, hl \in {34, 256} }

\* OUT p and IN p on port 0x00 (the number of a RAM address), the serial
\* card's ports 0x10 and 0x11, and the unserved ports 0x20 and 0xFF
PortCases ==
  { Case(<<op, p>>, 0, 256 * a + 2, 0, 0, 0, 48, 118) :
      op \in {211, 219}, p \in {0, 16, 17, 32, 255}, a \in {0, 65} }

\* a CP/M program image for 0x0005 .. 0x0031: NOPs, the text str at 0x0010
\* and the 16-bit return address ret on the stack at 0x0030
BdosImage(str, ret) ==
  [i \in 1 .. 45 |->
     IF i + 4 \in 16 .. (15 + Len(str)) THEN str[i - 11]
     ELSE IF i + 4 = 48 THEN ret
     ELSE 0]
\* "Hi$!$" and "$ABC$"
BdosTexts == { <<72, 105, 36, 33, 36>>, <<36, 65, 66, 67, 36>> }
\* CALL 0x0005 has just pushed its return address: PC = 0x0005, SP = 0x0030,
\* the function number in C (with B set or clear) and DE on the text
BdosCases ==
  { [Case(BdosImage(str, ret), 5, 2, bc, de, 0, 48, 0) EXCEPT !.bdos = TRUE] :
      str \in BdosTexts, ret \in {40, 41},
      bc \in {0, 1, 2, 9, 255, 521, 2304, 2306}, de \in 16 .. 19 }

\* function 9 with DE below the text, on its '$' and at the top of the
\* address space, on "Hi$" and on "Hi" (no '$' in memory)
BdosScanCases ==
  { [Case(BdosImage(str, 40), 5, 2, 9, de, 0, 48, 0) EXCEPT !.bdos = TRUE] :
      str \in { <<72, 105, 36>>, <<72, 105>> }, de \in {8, 18, 65530, 65535} }

InstCases == CondCases \cup StackCases \cup UndefCases \cup AluCases
             \cup IncCases \cup DaaCases \cup RotCases \cup MoveCases
             \cup PortCases \cup BdosCases \cup BdosScanCases

\* processor.load(image, org); processor.load({mb}, 0x0020);
\* processor.do_pseudo_bdos(bdos); processor.load_state(regs)
InitInst ==
  \E c \in InstCases :
    \E m \in { load_state(
                 do_pseudo_bdos(
                   load(load(Machine(Backplane.cards,
                                     [data |-> [d \in DataCardIds |-> data_card_init(d)],
                                      ser |-> [d \in SerialCardIds |-> serial_card_init]],
                                     cpu_state_init, cpu_init),
                             c.image, c.org, FALSE),
                        <<c.mb>>, 32, FALSE),
                   c.bdos),
                 c.regs) } :
      /\ cards = Backplane.cards
      /\ ignore_conflicts = Backplane.ign
      /\ data = m.W.data
      /\ ser = m.W.ser
      /\ irq_raised = card_init_irq
      /\ state = m.regs
      /\ cpu = m.cpu
      /\ calls = 0
      /\ lastOp = NoOp

\* processor.step(steps), once
InstStep ==
  \E steps \in StepsChoices :
    /\ calls = 0
    /\ calls' = 1
    /\ CpuCall("step", steps, step(Now, steps))

SpecInst == InitInst /\ [][InstStep]_vars

(***************************************************************************)
(* Properties of the CPU and of the register file                          *)
(***************************************************************************)
\* C1: a step() called while the CPU is halted changes no register, flag,
\* interrupt-enable bit or bus byte and performs no bus access, and halted
\* stays true over every call except clear().
C1_HaltedStepInert ==
  [][ /\ (lastOp'.op = "step" /\ cpu.halted) =>
           /\ state' = state /\ cpu' = cpu
           /\ data' = data /\ ser' = ser
           /\ lastOp'.trace = <<>> /\ lastOp'.printed = <<>>
      /\ (cpu.halted /\ lastOp'.op # "clear") => cpu'.halted
    ]_vars

\* the program ran into its HLT, and step() was then called on the halted
\* CPU with pseudo-BDOS enabled and PC back at 0x0000
C1_Witness ==
  /\ lastOp.op = "step" /\ lastOp.pre /\ cpu.halted
  /\ cpu.do_handle_bdos /\ ~cpu.just_booted
  /\ get_register16(state, cpu_registers16.PC) = 1
  /\ data["mem"][1] = 118

\* C2 (as claimed): the flag byte F always has bit 1 set and bits 3 and 5
\* clear, whatever was written to F or AF; a written 0xFF reads back 0xD7.
C2_FlagByteNormalized ==
  LET f == get_register8(state, cpu_registers8.F)
  IN /\ Bit(f, 1) /\ ~Bit(f, 3) /\ ~Bit(f, 5)
     /\ (lastOp.op = "set_register8" /\ lastOp.reg = cpu_registers8.F
         /\ lastOp.arg = 255) => f = 215

(***************************************************************************)
(* Properties of the bus                                                   *)
(***************************************************************************)
AllAdr == 0 .. 65535
\* the addresses each card answers to
CardRange == [c \in CardIds |-> {a \in AllAdr : in_range(c, a)}]

Occupied(cds) == {i \in Slots : cds[i] # NO_CARD}
MatchingSlots(cds, adr, io) == {i \in Slots : matches(cds, i, adr, io)}
MinOf(S) == CHOOSE x \in S : \A y \in S : x <= y

RECURSIVE Ascending(_)
Ascending(S) == IF S = {} THEN <<>> ELSE <<MinOf(S)>> \o Ascending(S \ {MinOf(S)})

\* the byte a card holds for an address
CardByte(d, sr, c, adr) ==
  IF CardPool[c].kind = "data" THEN d[c][adr - CardPool[c].start_adr + 1]
  ELSE IF (adr % 256) = CardPool[c].start_adr THEN sr[c].STATUS
  ELSE sr[c].RX_DATA

\* C3: any two distinct occupied slots with cards of the same space and with
\* neither allow_conflict bit set have disjoint address ranges.
C3_DisjointUnlessAllowed ==
  \A i, j \in Slots :
    ( /\ i # j
      /\ cards[i] # NO_CARD /\ cards[j] # NO_CARD
      /\ is_io(cards[i]) = is_io(cards[j])
      /\ ~ignore_conflicts[i] /\ ~ignore_conflicts[j] )
    => CardRange[cards[i]] \cap CardRange[cards[j]] = {}

\* two memory cards sit in two slots without allow_conflict, after inserts
\* that were rejected for a conflict as well as inserts that succeeded
C3_Witness ==
  /\ cards[0] = "rom" /\ cards[MAX_BUS_CARDS - 1] = "ram2"
  /\ ~ignore_conflicts[0] /\ ~ignore_conflicts[MAX_BUS_CARDS - 1]
  /\ lastOp.op = "insert" /\ lastOp.result = "conflict" /\ lastOp.card = "ram"

\* C4: a read returns the byte of the lowest-indexed matching slot's card,
\* and 0xFF when no slot matches.
C4_ReadFirstMatch ==
  [][ lastOp'.op = "read" =>
        LET M == MatchingSlots(cards, lastOp'.adr, lastOp'.io)
        IN IF M = {}
             THEN lastOp'.value = BAD_U8
             ELSE lastOp'.value = CardByte(data', ser', cards[MinOf(M)], lastOp'.adr)
     ]_vars

\* a read of an address two overlapping cards match, the lower slot's card
\* and the higher slot's card holding different bytes
C4_Witness ==
  /\ lastOp.op = "read" /\ lastOp.adr = 16 /\ ~lastOp.io
  /\ cards[0] = "ram" /\ cards[MAX_BUS_CARDS - 1] = "rom"
  /\ data["ram"][1] = 150 /\ lastOp.value = 150

\* C5: a write is delivered to exactly the matching slots, in increasing
\* slot order, and changes no card that does not match.
C5_WriteAllMatches ==
  [][ lastOp'.op = "write" =>
        LET M == MatchingSlots(cards, lastOp'.adr, lastOp'.io)
            hit == {cards[i] : i \in M}
        IN /\ lastOp'.deliv = Ascending(M)
           /\ \A c \in DataCardIds \ hit : data'[c] = data[c]
           /\ \A c \in SerialCardIds \ hit : ser'[c] = ser[c]
           /\ \A c \in hit \cap DataCardIds :
                ~is_w_locked(c) => CardByte(data', ser', c, lastOp'.adr) = lastOp'.byte
     ]_vars

\* a write reached two overlapping cards, the lower slot first
C5_Witness ==
  /\ lastOp.op = "write" /\ lastOp.deliv = <<0, MAX_BUS_CARDS - 1>>
  /\ cards[0] # cards[MAX_BUS_CARDS - 1]

ReadVal(cds, d, sr, adr, io) == bus_read(cds, [data |-> d, ser |-> sr], adr, io).val
MemAdrChoices == {acc[1] : acc \in {x \in AccessChoices : ~x[2]}}
FirstCard(cds, adr, io) == cds[MinOf(MatchingSlots(cds, adr, io))]

\* C6: over bus.write calls, an address served first by a write-locked data
\* card keeps reading the byte the card was constructed with, and an address
\* served first by an unlocked data card reads the byte just written to it
\* and keeps its byte over writes to other addresses and to ports.
C6_RomKeepsRamStores ==
  [][ lastOp'.op = "write" =>
        \A a \in MemAdrChoices :
          MatchingSlots(cards, a, FALSE) # {} =>
            LET c == FirstCard(cards, a, FALSE)
            IN IF is_w_locked(c)
                 THEN ReadVal(cards', data', ser', a, FALSE) = CardPool[c].fill
                 ELSE ReadVal(cards', data', ser', a, FALSE) =
                        IF a = lastOp'.adr /\ ~lastOp'.io THEN lastOp'.byte
                        ELSE ReadVal(cards, data, ser, a, FALSE)
     ]_vars

\* a write was delivered to a ROM in the lower slot and to the RAM behind it:
\* the RAM took the byte, the ROM kept its fill byte
C6_Witness ==
  /\ lastOp.op = "write" /\ lastOp.adr = 16 /\ lastOp.byte = 150
  /\ lastOp.deliv = <<0, MAX_BUS_CARDS - 1>>
  /\ cards[0] = "rom" /\ cards[MAX_BUS_CARDS - 1] = "ram"
  /\ data["rom"][3] = 90 /\ data["ram"][1] = 150 /\ data["ram"][3] = 3

\* C7: a read or write is delivered only to cards of its own space, and an
\* insert is rejected for a conflict only when an occupied slot without
\* allow_conflict holds a card of the new card's space.
C7_SpacesSeparate ==
  /\ lastOp.op \in {"read", "write"} =>
       \A k \in 1 .. Len(lastOp.deliv) : is_io(cards[lastOp.deliv[k]]) = lastOp.io
  /\ (lastOp.op = "insert" /\ lastOp.result = "conflict") =>
       \E i \in Occupied(cards) :
         ~ignore_conflicts[i] /\ is_io(cards[i]) = is_io(lastOp.card)

\* a memory card covering 0x0010 and the serial card at port 0x10 are both
\* plugged in without allow_conflict, and a port write reached the serial
\* card only
C7_Witness ==
  /\ cards[0] = "ram" /\ cards[MAX_BUS_CARDS - 1] = "ser"
  /\ ~ignore_conflicts[0] /\ ~ignore_conflicts[MAX_BUS_CARDS - 1]
  /\ lastOp.op = "write" /\ lastOp.adr = 16 /\ lastOp.io
  /\ lastOp.deliv = <<MAX_BUS_CARDS - 1>>
  /\ data["ram"][1] = 3

\* C8 (as claimed): an insert without allow_conflict into an empty valid slot
\* is rejected for a conflict iff some occupied slot without allow_conflict
\* holds a card of the same space whose range shares an address with the new
\* card's range, and binds the card otherwise.
C8_ConflictIffOverlap ==
  [][ ( /\ lastOp'.op = "insert" /\ lastOp'.card # NO_CARD /\ ~lastOp'.allow
        /\ lastOp'.slot \in Slots /\ cards[lastOp'.slot] = NO_CARD ) =>
        LET overlap == \E i \in Occupied(cards) :
                          /\ ~ignore_conflicts[i]
                          /\ is_io(cards[i]) = is_io(lastOp'.card)
                          /\ CardRange[cards[i]] \cap CardRange[lastOp'.card] # {}
        IN IF overlap
             THEN lastOp'.result = "conflict" /\ cards' = cards
             ELSE lastOp'.result = "ok" /\ cards'[lastOp'.slot] = lastOp'.card
     ]_vars

\* C9 (as claimed): an insert of a card at a slot index >= MAX_BUS_CARDS
\* fails with an out-of-range error and leaves the slot storage alone.
C9_SlotIndexChecked ==
  [][ ( /\ lastOp'.op = "insert" /\ lastOp'.card # NO_CARD
        /\ lastOp'.slot >= MAX_BUS_CARDS ) =>
        /\ lastOp'.result = "out_of_range"
        /\ cards' = cards /\ ignore_conflicts' = ignore_conflicts
     ]_vars

\* C10: after remove(slot), every address that only that slot matched reads
\* 0xFF.
C10_RemovedReadsBad ==
  [][ (lastOp'.op = "remove" /\ lastOp'.result = "ok") =>
        \A acc \in AccessChoices :
          MatchingSlots(cards, acc[1], acc[2]) = {lastOp'.slot} =>
            ReadVal(cards', data', ser', acc[1], acc[2]) = BAD_U8
     ]_vars

\* the RAM, written before, was the only card on the bus and was removed
C10_Witness ==
  /\ lastOp.op = "remove" /\ lastOp.result = "ok" /\ lastOp.card = "ram"
  /\ data["ram"][1] = 150
  /\ Occupied(cards) = {}

\* the slots whose card has its IRQ raised
RaisedSlots == {i \in Slots : cards[i] # NO_CARD /\ irq_raised[cards[i]]}

\* C11: is_irq() answers true exactly when some plugged card has its IRQ
\* raised; get_irq() answers with the instruction of the card in the lowest
\* such slot, and throws when there is none.
C11_IrqFirstRaisedSlot ==
  /\ lastOp.op = "is_irq" => (lastOp.result = "true" <=> RaisedSlots # {})
  /\ (lastOp.op = "get_irq" /\ RaisedSlots = {}) => lastOp.result = "runtime_error"
  /\ (lastOp.op = "get_irq" /\ RaisedSlots # {}) =>
       /\ lastOp.result = "ok"
       /\ \E i \in RaisedSlots :
            /\ \A j \in RaisedSlots : i <= j
            /\ lastOp.deliv = <<i>>
            /\ lastOp.inst = card_get_irq(cards[i])

\* get_irq() answered while two slots hold different cards with an IRQ raised
C11_Witness ==
  /\ lastOp.op = "get_irq" /\ lastOp.result = "ok"
  /\ Cardinality(RaisedSlots) = 2
  /\ cards[0] # cards[MAX_BUS_CARDS - 1]
  /\ lastOp.deliv = <<0>>

(***************************************************************************)
(* Properties of interrupt acceptance and of execute(opcode, op1, op2)     *)
(***************************************************************************)
\* the opcodes a call decoded, as a set
OpsOf(op) == {op.ops[k] : k \in 1 .. Len(op.ops)}

\* C12: interrupt(inst) with interrupts disabled changes no CPU or bus state
\* and makes no bus access; an accepted interrupt clears interrupts_enabled
\* before its instruction runs (so only an interrupting EI ends enabled), and
\* interrupts_enabled never goes from false to true in a call that decoded
\* no EI.
C12_InterruptGate ==
  [][ /\ (lastOp'.op = "interrupt" /\ ~cpu.interrupts_enabled) =>
           /\ state' = state /\ cpu' = cpu
           /\ data' = data /\ ser' = ser
           /\ lastOp'.trace = <<>> /\ lastOp'.ops = <<>>
      /\ (lastOp'.op = "interrupt" /\ cpu.interrupts_enabled) =>
           /\ lastOp'.ops = <<lastOp'.arg[1]>>
           /\ cpu'.interrupts_enabled <=> (lastOp'.arg[1] = 251)
      /\ (~cpu.interrupts_enabled /\ cpu'.interrupts_enabled) =>
           251 \in OpsOf(lastOp')
    ]_vars

\* an RST 1 was accepted: the return address is on the stack, PC is 0x0008
\* and interrupts are disabled
C12_Witness ==
  /\ lastOp.op = "interrupt" /\ lastOp.ops = <<207>>
  /\ ~cpu.interrupts_enabled
  /\ get_register16(state, cpu_registers16.PC) = 8
  /\ lastOp.trace # <<>>

\* C13 (as claimed): every execute(opcode, op1, op2), and every interrupt
\* acceptance, hands op1 to the instruction's first operand fetch and op2 to
\* its second, whatever was executed this way before, leaves PC alone while
\* doing so and ends with fetches coming from memory again: MVI A,op1 loads
\* op1 and keeps PC, an interrupting CALL op1 op2 goes to op2:op1.
C13_ExtOperandsInOrder ==
  [][ (/\ lastOp'.op \in {"execute", "interrupt"}
       /\ lastOp'.ops # <<>>) =>
        /\ ~cpu'.fetch_ext
        /\ lastOp'.arg[1] = 62 =>
             /\ get_register8(state', cpu_registers8.A) = lastOp'.arg[2]
             /\ lastOp'.op = "execute" =>
                  get_register16(state', cpu_registers16.PC) =
                    get_register16(state, cpu_registers16.PC)
        /\ lastOp'.arg[1] = 205 =>
             get_register16(state', cpu_registers16.PC) =
               lastOp'.arg[2] + 256 * lastOp'.arg[3]
    ]_vars

(***************************************************************************)
(* Properties of single instructions                                       *)
(***************************************************************************)
\* the registers of a register file, by name
PCof(regs) == get_register16(regs, cpu_registers16.PC)
SPof(regs) == get_register16(regs, cpu_registers16.SP)
Aof(regs) == get_register8(regs, cpu_registers8.A)
Fof(regs) == get_register8(regs, cpu_registers8.F)
\* the RAM card covers 0x0000 .. 0x003F
InRam(adr) == adr \in 0 .. (CardPool["mem"].capacity - 1)
\* address adr, if it is RAM, holds byte
RamHolds(d, adr, byte) == InRam(adr) => d["mem"][adr + 1] = byte
\* one step() decoded opcode op first
Stepped(op, n) ==
  /\ lastOp.op = "step" /\ lastOp.arg = n
  /\ lastOp.ops # <<>> /\ lastOp.ops[1] = op
\* condition cc of the CC table {NZ, Z, NC, C, PO, PE, P, M} on flag byte f
CondTrue(cc, f) ==
  CASE cc = 0 -> ~Bit(f, 6) [] cc = 1 -> Bit(f, 6)
    [] cc = 2 -> ~Bit(f, 0) [] cc = 3 -> Bit(f, 0)
    [] cc = 4 -> ~Bit(f, 2) [] cc = 5 -> Bit(f, 2)
    [] cc = 6 -> ~Bit(f, 7) [] cc = 7 -> Bit(f, 7)

\* C14: a conditional JMP or CALL whose condition is false leaves PC at the
\* opcode address + 3 (mod 2^16) and SP and memory as they were; a taken
\* Jcc sets PC to the little-endian operand and nothing else; a taken Ccc
\* also pushes the address of the following instruction.
C14_ConditionalTransfer ==
  [][ \A op \in JccOpcodes \cup CccOpcodes :
        Stepped(op, 1)' =>
          LET pc == PCof(state)
              sp == SPof(state)
              target == data["mem"][pc + 2] + 256 * data["mem"][pc + 3]
          IN IF ~CondTrue((op \div 8) % 8, Fof(state))
               THEN /\ PCof(state') = U16(pc + 3)
                    /\ SPof(state') = sp
                    /\ data' = data /\ ser' = ser
             ELSE IF op \in JccOpcodes
               THEN /\ PCof(state') = target
                    /\ SPof(state') = sp
                    /\ data' = data /\ ser' = ser
             ELSE /\ PCof(state') = target
                  /\ SPof(state') = U16(sp + 65534)
                  /\ RamHolds(data', U16(sp + 65534), U16(pc + 3) % 256)
                  /\ RamHolds(data', U16(sp + 65535), U16(pc + 3) \div 256)
                  /\ \A adr \in 0 .. 63 :
                       adr \notin {U16(sp + 65534), U16(sp + 65535)} =>
                         data'["mem"][adr + 1] = data["mem"][adr + 1]
    ]_vars

\* a CZ 1234 at 0x0005 was taken with SP = 0x0030: PC is 0x1234 and the
\* return address 0x0008 lies at 0x002E
C14_Witness ==
  /\ Stepped(204, 1)
  /\ PCof(state) = 4660 /\ SPof(state) = 46
  /\ data["mem"][47] = 8 /\ data["mem"][48] = 0

\* the pair PUSH/POP rp works on: BC, DE, HL, and AF for the SP encoding
StackPair(rp) == IF rp = 3 THEN cpu_registers16.AF ELSE rp + 1

\* C15: PUSH rp lowers SP by 2 (mod 2^16) and stores the pair's low byte at
\* the new SP and its high byte at SP + 1; when both stack bytes are RAM, a
\* POP rp right after it gives the pair and SP their values back; the SP
\* encoding of rp stands for AF.
C15_PushPop ==
  [][ \A rp \in 0 .. 3 :
        LET v == get_register16(state, StackPair(rp))
            sp == SPof(state)
        IN /\ Stepped(197 + 16 * rp, 1)' =>
                /\ SPof(state') = U16(sp + 65534)
                /\ lastOp'.trace = << <<"read", PCof(state), FALSE>>,
                                      <<"write", U16(sp + 65534), FALSE>>,
                                      <<"write", U16(sp + 65535), FALSE>> >>
                /\ RamHolds(data', U16(sp + 65534), v % 256)
                /\ RamHolds(data', U16(sp + 65535), v \div 256)
                /\ \A pair \in 0 .. 3 :
                     get_register16(state', pair) = get_register16(state, pair)
           /\ (/\ Stepped(197 + 16 * rp, 2)'
               /\ lastOp'.ops = <<197 + 16 * rp, 193 + 16 * rp>>
               /\ InRam(U16(sp + 65534)) /\ InRam(U16(sp + 65535))) =>
                /\ get_register16(state', StackPair(rp)) = v
                /\ SPof(state') = sp
    ]_vars

\* PUSH PSW; POP PSW ran with SP = 0x0040 and AF = 0xA502: the flag byte
\* lies at 0x003E, A at 0x003F, and AF and SP are back
C15_Witness ==
  /\ Stepped(245, 2) /\ lastOp.ops = <<245, 241>>
  /\ SPof(state) = 64
  /\ get_register16(state, cpu_registers16.AF) = 42242
  /\ data["mem"][63] = 2 /\ data["mem"][64] = 165

\* C16 (as claimed): decoding an opcode that is not an 8080 instruction makes
\* the call fail with a fatal error.
C16_UndefinedOpcodeFatal ==
  \A op \in UndefinedOpcodes :
    (lastOp.op = "step" /\ lastOp.ops # <<>> /\ lastOp.ops[1] = op) =>
      lastOp.result = "runtime_error"

\* the immediate forms SUI, SBI, CPI, ANI
ImmOpcodes == {214, 222, 254, 230}
\* the operand of an ALU instruction: the byte after the opcode, the byte at
\* (HL), or the register named by opcode[2:0]
AluOperand(op) ==
  IF op \in ImmOpcodes THEN data["mem"][PCof(state) + 2]
  ELSE IF op % 8 = 6
    THEN data["mem"][get_register16(state, cpu_registers16.HL) + 1]
  ELSE get_register8(state, cpu_reg8_decode(op % 8))
\* flag byte f has Z, S and P as the 8-bit value r asks
ZSPof(f, r) ==
  /\ Bit(f, 6) <=> (r = 0)
  /\ Bit(f, 7) <=> (r >= 128)
  /\ Bit(f, 2) <=> (Cardinality({i \in 0 .. 7 : Bit(r, i)}) % 2 = 0)

\* C17: SUB, SBB, SUI, SBI, CMP and CPI compute A - op (- C for SBB/SBI)
\* mod 256; C is set iff the subtraction borrowed out of bit 7, AC iff
\* (A & 0xF) >= (op & 0xF), Z/S/P follow the 8-bit result; CMP and CPI keep
\* A, the others store the result in A.
C17_SubtractFlags ==
  [][ \A op \in SubOpcodes :
        Stepped(op, 1)' =>
          LET a == Aof(state)
              x == AluOperand(op)
              cin == IF op \in {152, 158, 222} /\ Bit(Fof(state), 0) THEN 1 ELSE 0
              r == (a + 512 - x - cin) % 256
          IN /\ Aof(state') = IF op \in {184, 190, 254} THEN a ELSE r
             /\ Bit(Fof(state'), 0) <=> (a < x + cin)
             /\ Bit(Fof(state'), 4) <=> ((a % 16) >= (x % 16))
             /\ ZSPof(Fof(state'), r)
    ]_vars

\* SBI FF ran with A = 0x00 and C set: the result is 0x00 with a borrow,
\* Z set, AC clear
C17_Witness ==
  /\ Stepped(222, 1)
  /\ data["mem"][2] = 255
  /\ Aof(state) = 0
  /\ Bit(Fof(state), 0) /\ Bit(Fof(state), 6) /\ ~Bit(Fof(state), 4)

\* C18 (as claimed): ANA r / ANA M set AC to bit 3 of (A | op) and ANI sets
\* AC to 0; all of them store A & op in A, clear C and set Z/S/P from the
\* result.
C18_AndFlagsClaimed ==
  [][ \A op \in AnaOpcodes :
        Stepped(op, 1)' =>
          LET a == Aof(state)
              x == AluOperand(op)
          IN /\ Aof(state') = BitAnd(a, x)
             /\ ~Bit(Fof(state'), 0)
             /\ Bit(Fof(state'), 4) <=> (op # 230 /\ Bit(BitOr(a, x), 3))
             /\ ZSPof(Fof(state'), BitAnd(a, x))
    ]_vars

\* C18 (amended): ANA r, ANA M and ANI all set AC to bit 3 of (A | op),
\* store A & op in A, clear C and set Z/S/P from the result.
C18_AndFlags ==
  [][ \A op \in AnaOpcodes :
        Stepped(op, 1)' =>
          LET a == Aof(state)
              x == AluOperand(op)
          IN /\ Aof(state') = BitAnd(a, x)
             /\ ~Bit(Fof(state'), 0)
             /\ Bit(Fof(state'), 4) <=> Bit(BitOr(a, x), 3)
             /\ ZSPof(Fof(state'), BitAnd(a, x))
    ]_vars

\* ANI 08 ran with A = 0xF0: A is 0x00, Z is set and AC is set
C18_Witness ==
  /\ Stepped(230, 1)
  /\ data["mem"][2] = 8
  /\ Aof(state) = 0
  /\ Bit(Fof(state), 4) /\ Bit(Fof(state), 6) /\ ~Bit(Fof(state), 0)

\* the operand of INR/DCR: the register named by opcode[5:3], or the byte
\* the bus reads at (HL)
IncOperand(op) ==
  IF (op \div 8) % 8 = 6
    THEN bus_read(cards, World, get_register16(state, cpu_registers16.HL), FALSE).val
  ELSE get_register8(state, cpu_reg8_decode((op \div 8) % 8))

\* C19 (as claimed): INR and DCR, register and memory forms, leave C as it
\* was, set Z/S/P from the result, and set AC iff the increment carried out
\* of bit 3 (INR) or the decrement borrowed out of bit 3 (DCR).
C19_IncDecFlagsClaimed ==
  [][ \A op \in IncOpcodes \cup DcrOpcodes :
        Stepped(op, 1)' =>
          LET v == IncOperand(op)
              r == IF op \in IncOpcodes THEN (v + 1) % 256 ELSE (v + 255) % 256
          IN /\ Bit(Fof(state'), 0) <=> Bit(Fof(state), 0)
             /\ ZSPof(Fof(state'), r)
             /\ Bit(Fof(state'), 4) <=>
                  IF op \in IncOpcodes THEN v % 16 = 15 ELSE v % 16 = 0
    ]_vars

\* C19 (amended): INR and DCR, register forms and memory forms whose
\* operand byte is in RAM, leave C as it was, set Z/S/P from the result, and
\* set AC iff the increment carried out of bit 3 (INR) or the decrement did
\* not borrow out of bit 3 (DCR).
C19_IncDecFlags ==
  [][ \A op \in IncOpcodes \cup DcrOpcodes :
        (/\ Stepped(op, 1)'
         /\ (op \div 8) % 8 = 6 =>
              InRam(get_register16(state, cpu_registers16.HL))) =>
          LET v == IncOperand(op)
              r == IF op \in IncOpcodes THEN (v + 1) % 256 ELSE (v + 255) % 256
          IN /\ Bit(Fof(state'), 0) <=> Bit(Fof(state), 0)
             /\ ZSPof(Fof(state'), r)
             /\ Bit(Fof(state'), 4) <=>
                  IF op \in IncOpcodes THEN v % 16 = 15 ELSE v % 16 # 0
    ]_vars

\* DCR M ran on the RAM byte 0x10 at 0x0020 with C set: the byte is 0x0F,
\* the decrement borrowed out of bit 3, AC is clear and C is still set
C19_Witness ==
  /\ Stepped(53, 1)
  /\ get_register16(state, cpu_registers16.HL) = 32
  /\ data["mem"][33] = 15
  /\ ~Bit(Fof(state), 4) /\ Bit(Fof(state), 0)

\* C20 (as claimed): DAA adds 0x06 when the low nibble of A exceeds 9 or AC
\* is set, then 0x60 when the high nibble exceeds 9 or C is set; afterwards
\* C is set iff it was set before or the adjustment carried out of bit 7,
\* and Z/S/P are those of the adjusted A.
C20_DaaKeepsCarry ==
  [][ Stepped(39, 1)' =>
        LET a == Aof(state)
            a1 == a + (IF a % 16 > 9 \/ Bit(Fof(state), 4) THEN 6 ELSE 0)
            a2 == a1 + (IF (a1 \div 16) % 16 > 9 \/ Bit(Fof(state), 0)
                          THEN 96 ELSE 0)
        IN /\ Aof(state') = a2 % 256
           /\ Bit(Fof(state'), 0) <=> (Bit(Fof(state), 0) \/ a2 >= 256)
           /\ ZSPof(Fof(state'), a2 % 256)
    ]_vars

\* C21: RLC, RRC, RAL and RAR change only A and the C flag: Z, S, P, AC,
\* BC, DE, HL, SP and memory stay, C receives the bit rotated out, RLC/RRC
\* rotate it round into A and RAL/RAR rotate the previous C in; RAL followed
\* by RAR gives A and C back.
C21_RotatesTouchOnlyAandC ==
  [][ /\ \A op \in RotOpcodes :
           Stepped(op, 1)' =>
             LET a == Aof(state)
                 c == IF Bit(Fof(state), 0) THEN 1 ELSE 0
             IN /\ Aof(state') =
                     CASE op = 7 -> ((2 * a) % 256) + (a \div 128)
                       [] op = 15 -> (a \div 2) + 128 * (a % 2)
                       [] op = 23 -> ((2 * a) % 256) + c
                       [] op = 31 -> (a \div 2) + 128 * c
                /\ Bit(Fof(state'), 0) <=>
                     IF op \in {7, 23} THEN a >= 128 ELSE a % 2 = 1
                /\ Fof(state') \div 2 = Fof(state) \div 2
                /\ \A pair \in 1 .. 4 :
                     get_register16(state', pair) = get_register16(state, pair)
                /\ data' = data /\ ser' = ser
      /\ (Stepped(23, 2)' /\ lastOp'.ops = <<23, 31>>) =>
           /\ Aof(state') = Aof(state)
           /\ Fof(state') = Fof(state)
    ]_vars

\* RAL ran on A = 0x80 with C clear and Z, S, P, AC set: A is 0x00, C is
\* set and the other flags are as they were
C21_Witness ==
  /\ Stepped(23, 1)
  /\ Aof(state) = 0
  /\ Fof(state) = 215

\* C22: no data-move instruction (MOV, MVI, LXI, LDA, STA, LDAX, STAX, LHLD,
\* SHLD, XCHG, SPHL, PCHL, XTHL) changes the flag byte F.
C22_DataMovesKeepFlags ==
  [][ \A op \in DataMoveOpcodes :
        Stepped(op, 1)' => Fof(state') = Fof(state)
    ]_vars

\* LXI SP,0100 ran with Z, S, P, AC and C set: SP is 0x0100 and F is still
\* 0xD7
C22_Witness ==
  /\ Stepped(49, 1)
  /\ SPof(state) = 256
  /\ Fof(state) = 215

\* the slots whose card is an I/O card answering to port address adr
IoSlots(adr) ==
  {i \in Slots :
     /\ cards[i] \in SerialCardIds
     /\ (adr % 256) - CardPool[cards[i]].start_adr \in 0 .. (SERIAL_IO_ADDRESSES - 1)}

\* C23: OUT p writes A to bus address p | (p << 8) with io = true and IN p
\* reads that address with io = true into A; beyond fetching the opcode and
\* the port byte, neither reads or modifies a memory card, and IN from a
\* port no I/O card serves gives A = 0xFF.
C23_PortsAreIoOnly ==
  [][ \A op \in {211, 219} :
        Stepped(op, 1)' =>
          LET pc == PCof(state)
              p == data["mem"][pc + 2]
          IN /\ lastOp'.trace =
                  << <<"read", pc, FALSE>>, <<"read", pc + 1, FALSE>>,
                     <<IF op = 211 THEN "write" ELSE "read", p + 256 * p, TRUE>> >>
             /\ data' = data
             /\ op = 211 =>
                  /\ state' = [state EXCEPT ![cpu_registers16.PC] = pc + 2]
                  /\ ser' = bus_write(cards, World, p + 256 * p, Aof(state), TRUE).W.ser
             /\ op = 219 =>
                  /\ Aof(state') = bus_read(cards, World, p + 256 * p, TRUE).val
                  /\ IoSlots(p + 256 * p) = {} => Aof(state') = BAD_U8
    ]_vars

\* IN 00 ran: port 0x00 has no I/O card (address 0x0000 is RAM as memory),
\* A is 0xFF and the RAM still holds the instruction
C23_Witness ==
  /\ Stepped(219, 1)
  /\ data["mem"][2] = 0
  /\ Aof(state) = BAD_U8
  /\ lastOp.trace[3] = <<"read", 0, TRUE>>

(***************************************************************************)
(* Properties of the loader and of the pseudo-BDOS hooks                   *)
(***************************************************************************)
\* some data card, RAM or ROM, answers to memory address adr
\* what the bus reads at memory address adr
MemRead(d, adr) == ReadVal(cards, d, ser, adr, FALSE)
\* the last call was a successful load with auto_reset_vector, offset >= 3,
\* onto addresses that cards answer to
VectorLoaded(op) ==
  /\ op.op = "load" /\ op.result = "none" /\ op.allow /\ op.arg >= 3
  /\ \A a \in {0, 1, 2} \cup {op.arg + i - 1 : i \in 1 .. Len(op.inst)} : Backed(a)

\* C24 (as claimed): after a successful load(bytes, offset, true) with
\* offset >= 3 onto RAM or write-locked ROM every loaded byte reads back at
\* offset + i and addresses 0, 1, 2 read 0xC3, lo(offset), hi(offset); the
\* first step from reset then leaves PC at offset.
C24_LoadLandsWithVector ==
  [][ /\ VectorLoaded(lastOp') =>
           /\ \A i \in 1 .. Len(lastOp'.inst) :
                MemRead(data', lastOp'.arg + i - 1) = lastOp'.inst[i]
           /\ MemRead(data', 0) = 195
           /\ MemRead(data', 1) = lastOp'.arg % 256
           /\ MemRead(data', 2) = lastOp'.arg \div 256
      /\ (/\ VectorLoaded(lastOp)
          /\ state = cpu_state_init /\ cpu.just_booted /\ ~cpu.halted
          /\ lastOp'.op = "step") =>
           PCof(state') = lastOp.arg
    ]_vars

\* C25 (as claimed): with pseudo-BDOS enabled, the first step that begins
\* with PC = 0x0000 after boot clears just_booted and executes the
\* instruction at 0 as it stands; after any later step that began
\* with PC = 0x0000 the CPU is halted at the end of that step or of the
\* next one, whatever card serves address 0.
C25_SecondVisitHalts ==
  [][ /\ (/\ lastOp'.op = "step" /\ cpu.do_handle_bdos /\ ~cpu.halted
          /\ PCof(state) = 0 /\ cpu.just_booted) =>
           /\ ~cpu'.just_booted
           /\ lastOp'.trace[1] = <<"read", 0, FALSE>>
      /\ (/\ lastOp.op = "step" /\ lastOp.trace # <<>>
          /\ lastOp.trace[1] = <<"write", 0, FALSE>>
          /\ Backed(0)
          /\ lastOp'.op = "step") =>
           cpu'.halted
    ]_vars

\* the least number of addresses to go up from de, over the top of the
\* address space if need be, to one that reads 0x24
ScanLength(de) ==
  CHOOSE n \in { (a - de) % bus_size :
                   a \in {b \in 0 .. (CardPool["mem"].capacity - 1) :
                            MemRead(data, b) = 36} } :
    \A a \in 0 .. (CardPool["mem"].capacity - 1) :
      MemRead(data, a) = 36 => n <= (a - de) % bus_size

\* the bytes from address a up to, not including, the first 0x24
UpToDollar(d, a) ==
  [k \in 1 .. ScanLength(a) |-> MemRead(d, (a + k - 1) % bus_size)]

\* C26: with pseudo-BDOS enabled a step that begins at PC = 0x0005 prints
\* the bytes from DE up to but excluding the first 0x24 when C = 0x09 and
\* the byte in E when C = 0x02, and raises a fatal error for any other C;
\* after a supported call execution resumes at the 16-bit value popped from
\* the stack (here NOPs, so PC ends one past it per step) with SP two higher.
C26_BdosCall ==
  [][ (/\ lastOp'.op = "step" /\ cpu.do_handle_bdos /\ ~cpu.halted
       /\ PCof(state) = 5) =>
        LET c == state[cpu_registers16.BC] % 256
            popped == MemRead(data, SPof(state))
                        + 256 * MemRead(data, (SPof(state) + 1) % bus_size)
        IN /\ c = 9 => lastOp'.printed = UpToDollar(data, state[cpu_registers16.DE])
           /\ c = 2 => lastOp'.printed = <<state[cpu_registers16.DE] % 256>>
           /\ c \notin {2, 9} => /\ lastOp'.result = "runtime_error"
                                 /\ lastOp'.printed = <<>>
           /\ c \in {2, 9} =>
                /\ lastOp'.result = "none"
                /\ SPof(state') = (SPof(state) + 2) % bus_size
                /\ (\A k \in 0 .. (lastOp'.arg - 1) : MemRead(data, popped + k) = 0)
                     => PCof(state') = popped + lastOp'.arg
    ]_vars

\* function 9 on "Hi$!$" from DE = 0x0010 printed "Hi" and returned to
\* 0x0028, where one NOP ran
C26_Witness ==
  /\ lastOp.op = "step" /\ lastOp.arg = 1
  /\ cpu.do_handle_bdos
  /\ state[cpu_registers16.BC] = 521
  /\ lastOp.printed = <<72, 105>>
  /\ SPof(state) = 50
  /\ PCof(state) = 41

(***************************************************************************)
(* Properties of cpu::clear                                                *)
(***************************************************************************)

\* C27 (as claimed): whatever steps and interrupt acceptances came before,
\* clear() leaves the CPU as the constructor does: every register 0 except
\* F = 0x02, halted false, just_booted true, interrupts_enabled true and
\* operand fetches taken from bus memory.
C27_ClearRestoresInitial ==
  [][ lastOp'.op = "clear" =>
        /\ state' = cpu_state_init
        /\ Fof(state') = 2
        /\ ~cpu'.halted
        /\ cpu'.just_booted
        /\ cpu'.interrupts_enabled = cpu_init.interrupts_enabled
        /\ cpu'.fetch_ext = cpu_init.fetch_ext
    ]_vars

(***************************************************************************)
(* Properties of the register pairs                                        *)
(***************************************************************************)

\* C28: after any sequence of set_register8 and set_register16 calls every
\* pair reads as (high half << 8) | low half; a set_register8 stores its
\* byte in the named half (for F at least in the flag bits) and changes
\* neither the other half of the pair nor any other pair, and a
\* set_register16 shows in both halves of its pair and in no other pair.
C28_PairsCompose ==
  [][ /\ \A pair \in 0 .. 5 :
           get_register16(state', pair)
             = 256 * get_register8(state', 2 * pair) + get_register8(state', 2 * pair + 1)
      /\ lastOp'.op = "set_register8" =>
           /\ \A r \in PairHalves \ {lastOp'.reg} :
                get_register8(state', r) = get_register8(state, r)
           /\ lastOp'.reg # cpu_registers8.F =>
                get_register8(state', lastOp'.reg) = lastOp'.arg
           /\ BitAnd(get_register8(state', lastOp'.reg), 215) = BitAnd(lastOp'.arg, 215)
      /\ lastOp'.op = "set_register16" =>
           /\ get_register8(state', 2 * lastOp'.reg) = lastOp'.arg \div 256
           /\ lastOp'.reg # cpu_registers16.AF =>
                get_register8(state', 2 * lastOp'.reg + 1) = lastOp'.arg % 256
           /\ BitAnd(get_register8(state', 2 * lastOp'.reg + 1), 215)
                = BitAnd(lastOp'.arg % 256, 215)
           /\ \A pair \in (0 .. 5) \ {lastOp'.reg} :
                get_register16(state', pair) = get_register16(state, pair)
    ]_vars

\* BC was set to 0xABCD, then B to 0x12: BC reads 0x12CD and DE is untouched
C28_Witness ==
  /\ lastOp.op = "set_register8" /\ lastOp.reg = cpu_registers8.B
  /\ get_register16(state, cpu_registers16.BC) = 4813
  /\ get_register8(state, cpu_registers8.C) = 205
  /\ get_register16(state, cpu_registers16.DE) = 0

(***************************************************************************)
(* Properties of the data cards' construction and clear                    *)
(***************************************************************************)

\* the data card that answers a memory read of adr: the one in the lowest
\* slot whose range holds adr
Serving(adr) ==
  LET S == {i \in Slots : /\ cards[i] \in DataCardIds
                          /\ adr - CardPool[cards[i]].start_adr
                               \in 0 .. (CardPool[cards[i]].capacity - 1)}
  IN IF S = {} THEN NO_CARD
     ELSE cards[CHOOSE i \in S : \A j \in S : i <= j]

\* C29 (as claimed): bus.clear() leaves every byte of a write-locked data
\* card unchanged, and a memory read that follows it at an address of an
\* unlocked data card is still answered by that card and reads 0x00.
C29_ClearZeroFills ==
  [][ /\ lastOp'.op = "bus_clear" =>
           \A c \in DataCardIds : CardPool[c].lock => data'[c] = data[c]
      /\ (/\ lastOp.op = "bus_clear"
          /\ lastOp'.op = "read" /\ ~lastOp'.io
          /\ Serving(lastOp'.adr) # NO_CARD) =>
           /\ lastOp'.deliv # <<>>
           /\ cards[lastOp'.deliv[1]] = Serving(lastOp'.adr)
           /\ CardPool[Serving(lastOp'.adr)].lock =>
                lastOp'.value = CardPool[Serving(lastOp'.adr)].fill
           /\ ~CardPool[Serving(lastOp'.adr)].lock => lastOp'.value = 0
    ]_vars

\* C30 (as claimed): a RAM card built with ram_card(start, capacity) reads
\* 0x00 at its addresses when read right after it was plugged in with
\* success, before any write or clear.
C30_FreshRamReadsZero ==
  [][ (/\ lastOp.op = "insert" /\ lastOp.card = "ram2" /\ lastOp.result = "ok"
       /\ calls = 0
       /\ lastOp'.op = "read" /\ ~lastOp'.io
       /\ Serving(lastOp'.adr) = "ram2") =>
        lastOp'.value = 0
    ]_vars

(***************************************************************************)
(* Properties of the serial card                                           *)
(***************************************************************************)

\* the serial card's registers are those reset() leaves
InResetState(s) ==
  /\ s.CONTROL = 149
  /\ Bit(s.STATUS, TDRE_BIT) /\ ~Bit(s.STATUS, RDRF_BIT) /\ ~Bit(s.STATUS, IRQ_BIT)
  /\ s.rts
  /\ s.divide_by = 4
  /\ s.baud = SERIAL_BASE_CLOCK \div 16

\* C31 (as claimed): after construction, after clear() and after a write of
\* 0x03 to the control port from any prior configuration the serial card is
\* in the reset state: CONTROL = 0b10010101, TDRE = 1, RDRF = 0, IRQ = 0,
\* RTS = 1 and divisor 4 (baud = base/16).
C31_MasterReset ==
  /\ lastOp.op = "none" => InResetState(ser["ser"])
  /\ lastOp.op = "bus_clear" => InResetState(ser["ser"])
  /\ (lastOp.op = "write" /\ lastOp.adr % 256 = 16 /\ lastOp.byte = 3) =>
       InResetState(ser["ser"])

\* the bytes the card pushed to the endpoint so far
Pushed == ser["ser"].txlog

\* C32: a write to the data port pushes exactly that byte to the endpoint
\* and leaves TDRE = 1, a control-port write and every other operation push
\* nothing, and TDRE = 1 holds after every operation.
C32_DataWritePushesOne ==
  [][ /\ Bit(ser'["ser"].STATUS, TDRE_BIT)
      /\ (lastOp'.op = "write" /\ lastOp'.adr % 256 = 17) =>
           ser'["ser"].txlog = Append(ser["ser"].txlog, lastOp'.byte)
      /\ ~(lastOp'.op = "write" /\ lastOp'.adr % 256 = 17) =>
           ser'["ser"].txlog = ser["ser"].txlog
    ]_vars

\* 'A' then 'B' were written to the data port (the second through its
\* mirror 0x1011) around a control write: the endpoint got "AB"
C32_Witness ==
  /\ lastOp.op = "write" /\ lastOp.adr = 4113 /\ lastOp.byte = 66
  /\ Pushed = <<65, 66>>
  /\ ser["ser"].CONTROL # 149
  /\ Bit(ser["ser"].STATUS, TDRE_BIT)

\* C33: when RDRF is clear and the endpoint holds a byte, a read of the
\* status port takes exactly the first byte into RX_DATA and returns a
\* status with RDRF = 1, and a read of the data port right after it returns
\* that byte.
C33_StatusReadLatches ==
  [][ /\ (/\ lastOp'.op = "read" /\ lastOp'.adr % 256 = 16
          /\ ~Bit(ser["ser"].STATUS, RDRF_BIT) /\ ser["ser"].rxq # <<>>) =>
           /\ ser'["ser"].RX_DATA = Head(ser["ser"].rxq)
           /\ ser'["ser"].rxq = Tail(ser["ser"].rxq)
           /\ Bit(lastOp'.value, RDRF_BIT)
      /\ (/\ lastOp.op = "read" /\ lastOp.adr % 256 = 16
          /\ Bit(lastOp.value, RDRF_BIT)
          /\ lastOp'.op = "read" /\ lastOp'.adr % 256 = 17) =>
           /\ lastOp'.value = ser["ser"].RX_DATA
           /\ ser'["ser"].rxq = ser["ser"].rxq
    ]_vars

\* 'B' then 'A' arrived, a status read latched 'B' and the data port
\* returned it; 'A' is still on the endpoint
C33_Witness ==
  /\ lastOp.op = "read" /\ lastOp.adr % 256 = 17 /\ lastOp.value = 66
  /\ Bit(ser["ser"].STATUS, RDRF_BIT)
  /\ ser["ser"].rxq = <<65>>

\* C34 (as claimed): a control-port write sets the endpoint baud rate to
\* base_clock / 1 for clock-divide bits 00, base_clock / 16 for 01 and
\* base_clock / 64 for 10; bits 11 perform a master reset (data registers
\* and RDRF cleared, base_clock / 16).
C34_ClockDivide ==
  [][ (lastOp'.op = "write" /\ lastOp'.adr % 256 = 16) =>
        /\ lastOp'.byte % 4 = 0 => ser'["ser"].baud = SERIAL_BASE_CLOCK
        /\ lastOp'.byte % 4 = 1 => ser'["ser"].baud = SERIAL_BASE_CLOCK \div 16
        /\ lastOp'.byte % 4 = 2 => ser'["ser"].baud = SERIAL_BASE_CLOCK \div 64
        /\ lastOp'.byte % 4 = 3 =>
             /\ ser'["ser"].baud = SERIAL_BASE_CLOCK \div 16
             /\ ser'["ser"].TX_DATA = 0 /\ ser'["ser"].RX_DATA = 0
             /\ ~Bit(ser'["ser"].STATUS, RDRF_BIT)
    ]_vars

\* C39: once RDRF is set no read of either port takes a further byte from
\* the endpoint or changes RX_DATA, and RDRF stays set over every operation
\* but clear() and a master reset (a control write with divide bits 11).
C39_ReceiverStaysFull ==
  [][ Bit(ser["ser"].STATUS, RDRF_BIT) =>
        /\ lastOp'.op = "read" =>
             /\ ser'["ser"].rxq = ser["ser"].rxq
             /\ ser'["ser"].RX_DATA = ser["ser"].RX_DATA
        /\ ~(\/ lastOp'.op = "bus_clear"
             \/ (lastOp'.op = "write" /\ lastOp'.adr % 256 = 16
                 /\ lastOp'.byte % 4 = 3)) =>
             /\ Bit(ser'["ser"].STATUS, RDRF_BIT)
             /\ ser'["ser"].RX_DATA = ser["ser"].RX_DATA
    ]_vars

\* 'A' was latched, 'B' arrived after it, and a further data-port read
\* returned 'A' again while 'B' waits on the endpoint
C39_Witness ==
  /\ lastOp.op = "read" /\ lastOp.adr % 256 = 17 /\ lastOp.value = 65
  /\ Bit(ser["ser"].STATUS, RDRF_BIT)
  /\ ser["ser"].rxq = <<66>>

(***************************************************************************)
(* Properties of interrupt acceptance, of failing calls and of the IRQ     *)
(* lines                                                                   *)
(***************************************************************************)

\* C35 (as claimed): accepting an interrupt whose instruction is RST n or
\* CALL adr pushes one return address, so SP goes down by exactly 2 and the
\* stack in RAM holds the interrupted PC; when the handler (EI, RET at
\* 0x0008) has run, PC is the interrupted address and SP is back at its
\* value from before the interrupt.
C35_InterruptPushesOnce ==
  [][ /\ (/\ lastOp'.op = "interrupt" /\ cpu.interrupts_enabled
          /\ lastOp'.arg[1] \in {205, 207}) =>
           /\ SPof(state') = (SPof(state) - 2) % bus_size
           /\ RamHolds(data', SPof(state'), PCof(state) % 256)
           /\ RamHolds(data', SPof(state') + 1, PCof(state) \div 256)
      /\ (/\ lastOp.op = "interrupt" /\ lastOp.ops # <<>>
          /\ lastOp.ops[1] \in {205, 207}
          /\ lastOp'.op = "step" /\ lastOp'.ops = <<251, 201>>
          /\ InRam(lastOp.trace[1][2]) /\ InRam(lastOp.trace[1][2] + 1)) =>
           /\ SPof(state') = lastOp.trace[1][2] + 2
           /\ PCof(state') = data["mem"][lastOp.trace[1][2] + 1]
                               + 256 * data["mem"][lastOp.trace[1][2] + 2]
    ]_vars

\* C36: a bus.insert that fails (null card, slot out of range, slot
\* occupied, conflict) leaves every slot's card and every allow_conflict
\* bit as they were.
C36_FailedInsertKeepsBus ==
  [][ (lastOp'.op = "insert" /\ lastOp'.result # "ok") =>
        /\ cards' = cards
        /\ ignore_conflicts' = ignore_conflicts
    ]_vars

\* an insert into a free slot was refused for a conflict with a plugged
\* card: the slot is still free
C36_Witness ==
  /\ lastOp.op = "insert" /\ lastOp.result = "conflict"
  /\ lastOp.slot \in Slots /\ cards[lastOp.slot] = NO_CARD
  /\ \E i \in Slots : cards[i] # NO_CARD

\* C37 (as claimed): a cpu.load call that fails, because the bytes do not
\* fit in the bus or because auto_reset_vector was asked for with
\* offset <= 2, leaves every byte of plugged memory as it read before.
C37_FailedLoadKeepsMemory ==
  [][ (lastOp'.op = "load" /\ lastOp'.result # "none") =>
        \A adr \in 0 .. 63 : MemRead(data', adr) = MemRead(data, adr)
    ]_vars

\* C38: no read, write or clear of a data or serial card raises a card's
\* IRQ line: a control write with bit 7 set (and no master reset) changes
\* STATUS in bit 7 only, and on a bus of data and serial cards no card has
\* its IRQ raised and bus.is_irq() is false, so the front end never hands
\* the CPU an interrupt.
C38_CardsNeverRaiseIrq ==
  [][ /\ \A c \in CardIds : ~card_is_irq(irq_raised', c)
      /\ ~bus_is_irq(cards', irq_raised')
      /\ (/\ lastOp'.op = "write" /\ lastOp'.io /\ lastOp'.adr % 256 = 16
          /\ Bit(lastOp'.byte, 7) /\ lastOp'.byte % 4 # 3
          /\ \E i \in Slots : cards[i] = "ser") =>
           ser'["ser"].STATUS = SetBit(ser["ser"].STATUS, IRQ_BIT)
    ]_vars

\* the serial card took a control write with bit 7 set: its STATUS shows
\* IRQ next to TDRE, the bus reports no interrupt
C38_Witness ==
  /\ lastOp.op = "write" /\ lastOp.io /\ lastOp.adr % 256 = 16 /\ Bit(lastOp.byte, 7)
  /\ \E i \in Slots : cards[i] = "ser"
  /\ Bit(ser["ser"].STATUS, IRQ_BIT) /\ Bit(ser["ser"].STATUS, TDRE_BIT)
  /\ ~bus_is_irq(cards, irq_raised)

(***************************************************************************)
(* Properties of the pseudo-BDOS string print                              *)
(***************************************************************************)
\* some address of the system memory reads 0x24
HasDollar == \E adr \in 0 .. (CardPool["mem"].capacity - 1) : MemRead(data, adr) = 36

\* the CPU stands at the pseudo-BDOS entry with the string function in C
AtStringPrint ==
  /\ cpu.do_handle_bdos /\ ~cpu.halted
  /\ PCof(state) = 5 /\ state[cpu_registers16.BC] % 256 = 9

\* C40: a step at PC = 0x0005 with pseudo-BDOS on and C = 0x09 completes
\* for every DE when some bus address reads 0x24, and has then printed at
\* most 65535 bytes, the scan passing over the top of the address space
\* when the 0x24 lies below DE; when no address reads 0x24 the step never
\* completes.
C40_StringPrintTerminates ==
  /\ []((calls = 0 /\ AtStringPrint) => ((ENABLED InstStep) <=> HasDollar))
  /\ [][ (lastOp'.op = "step" /\ AtStringPrint) =>
           /\ HasDollar
           /\ lastOp'.result = "none"
           /\ Len(lastOp'.printed) <= 65535
           /\ Len(lastOp'.printed) = ScanLength(state[cpu_registers16.DE])
    ]_vars

\* the text "Hi$" was printed from DE = 0xFFFA: six bytes of unmapped
\* space, the sixteen bytes below the text and the text
C40_Witness ==
  /\ lastOp.op = "step"
  /\ cpu.do_handle_bdos /\ state[cpu_registers16.DE] = 65530
  /\ Len(lastOp.printed) = 24
  /\ lastOp.printed[1] = 255 /\ lastOp.printed[24] = 105

====
